---- MODULE Spec2Model ----
(***************************************************************************)
(* Default-value injection (`@default(auth())`) of the enhanced client:    *)
(* DefaultAuthHandler.preprocessArgs and the payload rewriting it does on  *)
(* a clone of the caller's argument tree.                                  *)
(*                                                                         *)
(* JavaScript objects live in a heap (a sequence of objects, an address is *)
(* an index into it), so that aliasing between the caller's argument tree  *)
(* and the tree the handler rewrites is part of the model.                 *)
(***************************************************************************)
EXTENDS Integers, Sequences, FiniteSets, TLC

(***************************************************************************)
(* Bounds of the model.                                                    *)
(***************************************************************************)
\* longest array (createMany data, nested create lists, type-def lists)
MaxItems == 2

(***************************************************************************)
(* JavaScript values: a scalar (kept as a string) or a reference to a heap *)
(* object.  `undefined` and `null` are scalars of their own.               *)
(***************************************************************************)
Scalar(s) == [ref |-> 0, s |-> s]

Ref(a) == [ref |-> a, s |-> ""]

Undefined == Scalar("undefined")

Null == Scalar("null")

IsRef(v) == v.ref # 0

\* `!v` for the values that occur: undefined and null are falsy
Falsy(v) == v = Undefined \/ v = Null

NoKeys == [k \in {} |-> Undefined]

\* an object or an array (arr) with its own enumerable keys
NewObject(kv) == [arr |-> FALSE, kv |-> kv]

NewArray(kv) == [arr |-> TRUE, kv |-> kv]

\* the keys of an array, in index order
IdxKeys == <<"0", "1", "2", "3">>

\* `k in o`
HasKey(h, v, k) == IsRef(v) /\ k \in DOMAIN h[v.ref].kv

\* `o[k]`, undefined when the key is absent (o is an object)
Get(h, v, k) == IF HasKey(h, v, k) THEN h[v.ref].kv[k] ELSE Undefined

\* `o?.[k]`
GetOpt(h, v, k) == IF IsRef(v) THEN Get(h, v, k) ELSE Undefined

\* `o[k] = x` on the object at address a
SetKey(h, a, k, x) ==
    [h EXCEPT ![a].kv = [j \in DOMAIN h[a].kv \cup {k} |-> IF j = k THEN x ELSE h[a].kv[j]]]

\* Array.isArray(v)
IsArray(h, v) == IsRef(v) /\ h[v.ref].arr

\* typeof v === 'object' (null included)
TypeofObject(v) == IsRef(v) \/ v = Null

ArrayLen(h, v) == Cardinality(DOMAIN h[v.ref].kv)

\* enumerate(x): [] for null and undefined, the array itself, else [x]
Enumerate(h, v) ==
    IF v = Undefined \/ v = Null THEN <<>>
    ELSE IF IsArray(h, v) THEN [i \in 1..ArrayLen(h, v) |-> h[v.ref].kv[IdxKeys[i]]]
    ELSE <<v>>

(***************************************************************************)
(* Argument trees as the caller writes them: a set of <<path, leaf>>       *)
(* pairs.  A leaf is a scalar, or the marker of an empty object or array.  *)
(***************************************************************************)
Leaf(s) == {<<<<>>, s>>}

Under(k, T) == {<< <<k>> \o e[1], e[2] >> : e \in T}

EmptyObjectT == Leaf("{}")

EmptyArrayT == Leaf("[]")

\* the object whose keys are the union of the parts (each part is Under(k, T))
ObjT(parts) == IF UNION parts = {} THEN EmptyObjectT ELSE UNION parts

\* the array of the trees of a sequence
ArrT(ts) == IF Len(ts) = 0 THEN EmptyArrayT ELSE UNION {Under(IdxKeys[i], ts[i]) : i \in 1..Len(ts)}

TreeKeys(T) == {e[1][1] : e \in {x \in T : Len(x[1]) > 0}}

SubTree(T, k) == {<<Tail(e[1]), e[2]>> : e \in {x \in T : Len(x[1]) > 0 /\ x[1][1] = k}}

IsLeafT(T) == \E e \in T : e[1] = <<>>

LeafOf(T) == (CHOOSE e \in T : e[1] = <<>>)[2]

IsArrayT(T) == T = EmptyArrayT \/ (~IsLeafT(T) /\ TreeKeys(T) \subseteq {IdxKeys[i] : i \in DOMAIN IdxKeys})

\* allocate the objects of a tree on the heap: [h: the heap, v: the value]
RECURSIVE BuildTree(_, _), BuildKids(_, _, _, _)
BuildKids(h, T, keys, kv) ==
    IF keys = {} THEN [h |-> h, kv |-> kv]
    ELSE LET k == CHOOSE x \in keys : TRUE
             r == BuildTree(h, SubTree(T, k))
         IN BuildKids(r.h, T, keys \ {k},
                      [j \in DOMAIN kv \cup {k} |-> IF j = k THEN r.v ELSE kv[j]])

BuildTree(h, T) ==
    IF IsLeafT(T) /\ LeafOf(T) \notin {"{}", "[]"} THEN [h |-> h, v |-> Scalar(LeafOf(T))]
    ELSE LET r == BuildKids(h, T, TreeKeys(T), NoKeys)
             o == IF IsArrayT(T) THEN NewArray(r.kv) ELSE NewObject(r.kv)
         IN [h |-> Append(r.h, o), v |-> Ref(Len(r.h) + 1)]

\* the tree a value stands for (what a deep comparison sees)
RECURSIVE TreeOf(_, _)
TreeOf(h, v) ==
    IF ~IsRef(v) THEN Leaf(v.s)
    ELSE IF DOMAIN h[v.ref].kv = {} THEN (IF h[v.ref].arr THEN EmptyArrayT ELSE EmptyObjectT)
    ELSE UNION {Under(k, TreeOf(h, h[v.ref].kv[k])) : k \in DOMAIN h[v.ref].kv}

\* the addresses reachable from a value
RECURSIVE Reach(_, _)
Reach(h, v) ==
    IF ~IsRef(v) THEN {}
    ELSE {v.ref} \cup UNION {Reach(h, h[v.ref].kv[k]) : k \in DOMAIN h[v.ref].kv}


\* clone(value): a deep copy; every reachable object is copied to a fresh address
Clone(h, v) ==
    IF ~IsRef(v) THEN [h |-> h, v |-> v]
    ELSE LET R == Reach(h, v)
             n == Len(h)
             to(a) == n + Cardinality({b \in R : b <= a})
             from(i) == CHOOSE a \in R : to(a) = n + i
             copy(o) == [arr |-> o.arr,
                         kv |-> [k \in DOMAIN o.kv |->
                                   IF IsRef(o.kv[k]) THEN Ref(to(o.kv[k].ref)) ELSE o.kv[k]]]
         IN [h |-> h \o [i \in 1..Cardinality(R) |-> copy(h[from(i)])], v |-> Ref(to(v.ref))]

(***************************************************************************)
(* Model metadata (ModelMeta): per model and per type-def the ordered list *)
(* of FieldInfo records.  provider names the identity property the field's *)
(* `@default(auth().<property>)` reads, "" when the field has none.        *)
(***************************************************************************)
FieldInfo(name, type) ==
    [name |-> name, type |-> type, isDataModel |-> FALSE, isTypeDef |-> FALSE,
     isForeignKey |-> FALSE, relationField |-> "", provider |-> "", foreignKeyMapping |-> <<>>]

ScalarField(name) == FieldInfo(name, "String")

DefaultField(name, provider) == [ScalarField(name) EXCEPT !.provider = provider]

FkField(name, relationField, provider) ==
    [ScalarField(name) EXCEPT !.isForeignKey = TRUE, !.relationField = relationField,
                              !.provider = provider]

RelationField(name, type, mapping) ==
    [FieldInfo(name, type) EXCEPT !.isDataModel = TRUE, !.foreignKeyMapping = mapping]

TypeDefField(name, type) == [FieldInfo(name, type) EXCEPT !.isTypeDef = TRUE]

Models == {"User", "Post", "Comment", "Doc", "Memo", "Orphan", "Ghost", "Loose"}

TypeDefs == {"Profile", "Address", "Tag"}

\* getFields(modelMeta, model)
GetFields(model) ==
    CASE model = "User" ->
           <<ScalarField("name"), DefaultField("invitedBy", "id")>>
      [] model = "Post" ->
           <<ScalarField("title"),
             FkField("authorId", "author", "id"),
             RelationField("author", "User", << <<"id", "authorId">> >>),
             DefaultField("org", "org"),
             RelationField("comments", "Comment", <<>>)>>
      [] model = "Comment" ->
           \* a relation backed by two foreign keys
           <<ScalarField("text"),
             FkField("orgId", "member", "org"),
             FkField("userId", "member", "id"),
             RelationField("member", "User", << <<"org", "orgId">>, <<"id", "userId">> >>)>>
      [] model = "Doc" ->
           <<TypeDefField("meta", "Profile"), DefaultField("owner", "id")>>
      [] model = "Memo" ->
           \* no field with a provider, in the model or in its type-def
           <<TypeDefField("info", "Tag")>>
      [] model = "Orphan" ->
           \* a foreign key with no relation field
           <<FkField("ref", "", "id")>>
      [] model = "Ghost" ->
           \* a foreign key whose relation field is not a field of the model
           <<FkField("gid", "ghost", "id")>>
      [] model = "Loose" ->
           \* a relation whose mapping does not name the foreign key
           <<FkField("lid", "link", "id"),
             RelationField("link", "User", << <<"id", "otherId">> >>)>>
      [] OTHER -> <<>>

\* getTypeDefInfo(modelMeta, type).fields
TypeDefFields(type) ==
    CASE type = "Profile" ->
           <<ScalarField("bio"), DefaultField("by", "id"), TypeDefField("address", "Address")>>
      [] type = "Address" ->
           <<ScalarField("city"), DefaultField("zone", "org")>>
      [] type = "Tag" ->
           <<ScalarField("label")>>
      [] OTHER -> <<>>

FieldNames(fs) == {fs[i].name : i \in DOMAIN fs}

\* resolveField(modelMeta, model, name) is defined
HasField(model, name) == name \in FieldNames(GetFields(model))

\* requireField(modelMeta, model, name), for a field that exists
FieldOf(model, name) ==
    LET fs == GetFields(model) IN fs[CHOOSE i \in DOMAIN fs : fs[i].name = name]

(***************************************************************************)
(* The caller identity (context.user) and the default value providers.     *)
(***************************************************************************)
Anonymous == [present |-> FALSE, id |-> "undefined", org |-> "undefined"]

Identity(id, org) == [present |-> TRUE, id |-> id, org |-> org]

Users == {Anonymous, Identity("u1", "undefined"), Identity("u1", "o1")}

\* fieldInfo.defaultValueProvider?.(userContext)
ProviderValue(f, user) ==
    IF f.provider = "id" THEN Scalar(user.id)
    ELSE IF f.provider = "org" THEN Scalar(user.org)
    ELSE Undefined

(***************************************************************************)
(* Errors thrown during preprocessing: the kind and the field it names.    *)
(***************************************************************************)
NoError == [kind |-> "none", field |-> ""]

Error(kind, field) == [kind |-> kind, field |-> field]

Failed(r) == r.err.kind # "none"

Ok(h) == [h |-> h, err |-> NoError]

Throw(h, kind, field) == [h |-> h, err |-> Error(kind, field)]

(***************************************************************************)
(* DefaultAuthHandler                                                      *)
(***************************************************************************)
\* isUnsafeMutate(model, data, modelMeta): the payload sets a foreign key field
IsUnsafeMutate(model, h, d) ==
    /\ IsRef(d)
    /\ \E k \in DOMAIN h[d.ref].kv : HasField(model, k) /\ FieldOf(model, k).isForeignKey

\* a lookup that takes the mapped value for the key
GetOppositeFkFieldName_Value(relationField, fieldInfo) ==
    LET m == relationField.foreignKeyMapping
        hits == {i \in DOMAIN m : m[i][2] = fieldInfo.name}
    IN IF hits = {} THEN ""
       ELSE m[CHOOSE i \in hits : \A j \in hits : i <= j][2]

\* getOppositeFkFieldName: "" stands for undefined
GetOppositeFkFieldName(relationField, fieldInfo) ==
    LET m == relationField.foreignKeyMapping
        hits == {i \in DOMAIN m : m[i][2] = fieldInfo.name}
    IN IF hits = {} THEN ""
       ELSE m[CHOOSE i \in hits : \A j \in hits : i <= j][1]

\* getDefaultValue without the check of the user context
GetDefaultValue_Unchecked(user, fieldInfo) ==
    [err |-> NoError, v |-> ProviderValue(fieldInfo, user)]

\* getDefaultValue: [err, v]
GetDefaultValue(user, fieldInfo) ==
    IF ~user.present
    THEN [err |-> Error("ValidationError", fieldInfo.name), v |-> Undefined]
    ELSE [err |-> NoError, v |-> ProviderValue(fieldInfo, user)]

\* the translation to a connect that leaves the payload alone when the
\* metadata does not resolve, instead of throwing
ConnectDefault_Silent(h, fieldInfo, model, a, authDefaultValue) ==
    LET relFieldName == fieldInfo.relationField IN
    IF relFieldName = "" \/ ~HasField(model, relFieldName) THEN Ok(h)
    ELSE
      LET relationField == FieldOf(model, relFieldName)
          found == GetOpt(h, Get(h, Ref(a), relationField.name), "connect")
          n == Len(h)
          h1 == IF Falsy(found)
                THEN SetKey(h \o <<NewObject(NoKeys), NewObject([k \in {"connect"} |-> Ref(n + 1)])>>,
                            a, relationField.name, Ref(n + 2))
                ELSE h
          connect == IF Falsy(found) THEN Ref(n + 1) ELSE found
          oppositeFkFieldName == GetOppositeFkFieldName(relationField, fieldInfo)
      IN IF oppositeFkFieldName = "" THEN Ok(h)
         ELSE IF ~IsRef(connect) THEN Throw(h1, "TypeError", fieldInfo.name)
         ELSE Ok(SetKey(h1, connect.ref, oppositeFkFieldName, authDefaultValue))

\* the translation of a foreign key default to a `connect` (lines 120-142)
ConnectDefault(h, fieldInfo, model, a, authDefaultValue) ==
    LET relFieldName == fieldInfo.relationField IN
    IF relFieldName = "" THEN Throw(h, "Error", fieldInfo.name)
    ELSE IF ~HasField(model, relFieldName) THEN Throw(h, "NotFoundError", relFieldName)
    ELSE
      LET relationField == FieldOf(model, relFieldName)
          found == GetOpt(h, Get(h, Ref(a), relationField.name), "connect")
          n == Len(h)
          \* connect = {}; data[relationField.name] = { connect }
          h1 == IF Falsy(found)
                THEN SetKey(h \o <<NewObject(NoKeys), NewObject([k \in {"connect"} |-> Ref(n + 1)])>>,
                            a, relationField.name, Ref(n + 2))
                ELSE h
          connect == IF Falsy(found) THEN Ref(n + 1) ELSE found
          oppositeFkFieldName == GetOppositeFkFieldName(relationField, fieldInfo)
      IN IF oppositeFkFieldName = "" THEN Throw(h1, "Error", fieldInfo.name)
         ELSE IF ~IsRef(connect) THEN Throw(h1, "TypeError", fieldInfo.name)
         ELSE Ok(SetKey(h1, connect.ref, oppositeFkFieldName, authDefaultValue))

\* setDefaultValueForModelData that makes a connect of every foreign key,
\* unsafe mutate or not
SetDefaultValueForModelData_NoUnsafeCheck(h, fieldInfo, model, a, authDefaultValue) ==
    IF fieldInfo.isForeignKey /\ fieldInfo.relationField # ""
       /\ HasKey(h, Ref(a), fieldInfo.relationField)
    THEN Ok(h)
    ELSE IF fieldInfo.isForeignKey
    THEN ConnectDefault(h, fieldInfo, model, a, authDefaultValue)
    ELSE Ok(SetKey(h, a, fieldInfo.name, authDefaultValue))

\* setDefaultValueForModelData without the early return of lines 112-115
SetDefaultValueForModelData_NoRelationCheck(h, fieldInfo, model, a, authDefaultValue) ==
    IF fieldInfo.isForeignKey /\ ~IsUnsafeMutate(model, h, Ref(a))
    THEN ConnectDefault(h, fieldInfo, model, a, authDefaultValue)
    ELSE Ok(SetKey(h, a, fieldInfo.name, authDefaultValue))

\* setDefaultValueForModelData on the payload object at address a
SetDefaultValueForModelData(h, fieldInfo, model, a, authDefaultValue) ==
    IF fieldInfo.isForeignKey /\ fieldInfo.relationField # ""
       /\ HasKey(h, Ref(a), fieldInfo.relationField)
    THEN Ok(h)
    ELSE IF fieldInfo.isForeignKey /\ ~IsUnsafeMutate(model, h, Ref(a))
    THEN ConnectDefault(h, fieldInfo, model, a, authDefaultValue)
    ELSE Ok(SetKey(h, a, fieldInfo.name, authDefaultValue))

\* one field of an embedded object (lines 184-193), without the recursion
TypeDefScalarStep(h, user, fieldInfo, item) ==
    IF HasKey(h, item, fieldInfo.name) THEN Ok(h)
    ELSE LET d == GetDefaultValue(user, fieldInfo)
         IN IF d.err.kind # "none" THEN [h |-> h, err |-> d.err]
            ELSE IF d.v # Undefined THEN Ok(SetKey(h, item.ref, fieldInfo.name, d.v))
            ELSE Ok(h)

\* setDefaultValueForTypeDefData(type, data)
\* the loops below stop at the first step that throws: r is the outcome of
\* step i, and the loop goes on from it
RECURSIVE SetDefaultValueForTypeDefData(_, _, _, _)
RECURSIVE TypeDefItems(_, _, _, _, _), TypeDefItemsFrom(_, _, _, _, _)
RECURSIVE TypeDefItemFields(_, _, _, _, _), TypeDefItemFieldsFrom(_, _, _, _, _)
TypeDefItemFieldsFrom(r, user, fs, item, i) ==
    IF Failed(r) THEN r ELSE TypeDefItemFields(r.h, user, fs, item, i + 1)

TypeDefItemFields(h, user, fs, item, i) ==
    IF i > Len(fs) THEN Ok(h)
    ELSE TypeDefItemFieldsFrom(
           IF fs[i].isTypeDef
           THEN SetDefaultValueForTypeDefData(h, user, fs[i].type, Get(h, item, fs[i].name))
           ELSE TypeDefScalarStep(h, user, fs[i], item),
           user, fs, item, i)

TypeDefItemsFrom(r, user, type, items, i) ==
    IF Failed(r) THEN r ELSE TypeDefItems(r.h, user, type, items, i + 1)

TypeDefItems(h, user, type, items, i) ==
    IF i > Len(items) THEN Ok(h)
    ELSE TypeDefItemsFrom(
           IF Falsy(items[i]) \/ ~TypeofObject(items[i]) THEN Ok(h)
           ELSE TypeDefItemFields(h, user, TypeDefFields(type), items[i], 1),
           user, type, items, i)

\* setDefaultValueForTypeDefData that takes the data for one item, array or not
SetDefaultValueForTypeDefData_NoEnumerate(h, user, type, data) ==
    IF Falsy(data) \/ (~TypeofObject(data) /\ ~IsArray(h, data)) THEN Ok(h)
    ELSE IF type \notin TypeDefs THEN Ok(h)
    ELSE TypeDefItems(h, user, type, <<data>>, 1)

SetDefaultValueForTypeDefData(h, user, type, data) ==
    IF Falsy(data) \/ (~TypeofObject(data) /\ ~IsArray(h, data)) THEN Ok(h)
    ELSE IF type \notin TypeDefs THEN Ok(h)
    ELSE TypeDefItems(h, user, type, Enumerate(h, data), 1)

\* the loop's round with `data[fieldInfo.name] !== undefined` for the `in` test
CreateFieldStep_Defined(h, user, model, fieldInfo, data) ==
    IF fieldInfo.isTypeDef
    THEN SetDefaultValueForTypeDefData(h, user, fieldInfo.type, Get(h, data, fieldInfo.name))
    ELSE IF Get(h, data, fieldInfo.name) # Undefined THEN Ok(h)
    ELSE IF fieldInfo.provider = "" THEN Ok(h)
    ELSE LET d == GetDefaultValue(user, fieldInfo)
         IN IF d.err.kind # "none" THEN [h |-> h, err |-> d.err]
            ELSE IF d.v # Undefined
            THEN SetDefaultValueForModelData(h, fieldInfo, model, data.ref, d.v)
            ELSE Ok(h)

\* the loop's round without the test `defaultValue !== undefined`
CreateFieldStep_AlwaysSet(h, user, model, fieldInfo, data) ==
    IF fieldInfo.isTypeDef
    THEN SetDefaultValueForTypeDefData(h, user, fieldInfo.type, Get(h, data, fieldInfo.name))
    ELSE IF HasKey(h, data, fieldInfo.name) THEN Ok(h)
    ELSE IF fieldInfo.provider = "" THEN Ok(h)
    ELSE LET d == GetDefaultValue(user, fieldInfo)
         IN IF d.err.kind # "none" THEN [h |-> h, err |-> d.err]
            ELSE SetDefaultValueForModelData(h, fieldInfo, model, data.ref, d.v)

\* one round of the loop over the model's fields (lines 67-86)
CreateFieldStep(h, user, model, fieldInfo, data) ==
    IF fieldInfo.isTypeDef
    THEN SetDefaultValueForTypeDefData(h, user, fieldInfo.type, Get(h, data, fieldInfo.name))
    ELSE IF HasKey(h, data, fieldInfo.name) THEN Ok(h)
    ELSE IF fieldInfo.provider = "" THEN Ok(h)
    ELSE LET d == GetDefaultValue(user, fieldInfo)
         IN IF d.err.kind # "none" THEN [h |-> h, err |-> d.err]
            ELSE IF d.v # Undefined
            THEN SetDefaultValueForModelData(h, fieldInfo, model, data.ref, d.v)
            ELSE Ok(h)

\* the loop over the fields that ends with the first round that changes the
\* payload
RECURSIVE CreateFields_FirstOnly(_, _, _, _, _), CreateFields_FirstOnlyFrom(_, _, _, _, _, _)
CreateFields_FirstOnlyFrom(r, h, user, model, data, i) ==
    IF Failed(r) \/ r.h # h THEN r ELSE CreateFields_FirstOnly(h, user, model, data, i + 1)

CreateFields_FirstOnly(h, user, model, data, i) ==
    IF i > Len(GetFields(model)) THEN Ok(h)
    ELSE CreateFields_FirstOnlyFrom(CreateFieldStep(h, user, model, GetFields(model)[i], data),
                                    h, user, model, data, i)

RECURSIVE CreateFields(_, _, _, _, _), CreateFieldsFrom(_, _, _, _, _)
CreateFieldsFrom(r, user, model, data, i) ==
    IF Failed(r) THEN r ELSE CreateFields(r.h, user, model, data, i + 1)

CreateFields(h, user, model, data, i) ==
    IF i > Len(GetFields(model)) THEN Ok(h)
    ELSE CreateFieldsFrom(CreateFieldStep(h, user, model, GetFields(model)[i], data),
                          user, model, data, i)

\* processCreatePayload(model, data); a payload that is no object makes the
\* first `data[...]` or `... in data` throw a TypeError
ProcessCreatePayload(h, user, model, data) ==
    IF ~IsRef(data) THEN Throw(h, "TypeError", "")
    ELSE CreateFields(h, user, model, data, 1)


(***************************************************************************)
(* NestedWriteVisitor: the create-role payloads of a write-argument tree,  *)
(* in pre-order.  The agenda holds the payloads still to be visited; the   *)
(* visitor awaits the callback of one before it goes on to the next.       *)
(***************************************************************************)
ACTIONS_WITH_WRITE_PAYLOAD ==
    {"create", "createMany", "createManyAndReturn", "update", "updateMany", "upsert"}

\* the write actions a relation payload may hold, in visiting order
NestedActions ==
    <<"create", "createMany", "connectOrCreate", "connect", "upsert", "update",
      "updateMany", "disconnect", "set", "delete", "deleteMany">>

Task(kind, model, v, top) == [kind |-> kind, model |-> model, v |-> v, top |-> top]

SeqMap(Op(_), s) == [i \in DOMAIN s |-> Op(s[i])]

RECURSIVE Flatten(_)
Flatten(ss) == IF Len(ss) = 0 THEN <<>> ELSE Head(ss) \o Flatten(Tail(ss))

\* doVisit(model, action, data): the payloads it goes through, one task each
DoVisitTasks(h, model, action, data, top) ==
    IF Falsy(data) THEN <<>>
    ELSE IF action \in {"create", "upsert", "update", "connectOrCreate"}
    THEN LET one(item) == Task(action, model, item, top) IN SeqMap(one, Enumerate(h, data))
    ELSE IF action \in {"createMany", "createManyAndReturn"}
    THEN <<Task("createMany", model, data, top)>>
    ELSE <<>>

\* the nested writes under one relation field of a payload
RelationTasks(h, fieldInfo, item) ==
    LET rv == Get(h, item, fieldInfo.name)
        sub(i) == IF IsRef(rv) /\ HasKey(h, rv, NestedActions[i])
                  THEN DoVisitTasks(h, fieldInfo.type, NestedActions[i],
                                    Get(h, rv, NestedActions[i]), FALSE)
                  ELSE <<>>
    IN Flatten([i \in DOMAIN NestedActions |-> sub(i)])

\* the keys of a payload object that are no field of its model
UnknownKeys(h, model, item) == {k \in DOMAIN h[item.ref].kv : ~HasField(model, k)}

\* visitSubPayload(model, payload): [err, tasks]
ItemTasks(h, model, item) ==
    IF ~IsRef(item) THEN <<>>
    ELSE LET fs == GetFields(model)
             sub(i) == IF fs[i].isDataModel THEN RelationTasks(h, fs[i], item) ELSE <<>>
         IN Flatten([i \in DOMAIN fs |-> sub(i)])

VisitSubPayload(h, model, payload) ==
    LET items == Enumerate(h, payload)
        bad == {i \in DOMAIN items : IsRef(items[i]) /\ UnknownKeys(h, model, items[i]) # {}}
        one(item) == ItemTasks(h, model, item)
    IN IF bad # {}
       THEN LET i == CHOOSE x \in bad : \A y \in bad : x <= y
            IN [err |-> Error("SchemaMismatchError",
                              CHOOSE k \in UnknownKeys(h, model, items[i]) : TRUE),
                tasks |-> <<>>]
       ELSE [err |-> NoError, tasks |-> Flatten(SeqMap(one, items))]

\* visit(model, action, args): the top-level payload
VisitTop(h, model, action, args) ==
    IF Falsy(args) THEN <<>>
    ELSE IF action = "create" THEN DoVisitTasks(h, model, action, Get(h, args, "data"), TRUE)
    ELSE IF action \in {"delete", "deleteMany"}
    THEN DoVisitTasks(h, model, action, Get(h, args, "where"), TRUE)
    ELSE DoVisitTasks(h, model, action, args, TRUE)

\* a create-role payload as the callback finds it
Node(cb, role, model, h, v) ==
    [cb |-> cb, role |-> role, model |-> model, v |-> v,
     before |-> IF IsRef(v) THEN h[v.ref] ELSE NewObject(NoKeys),
     tree |-> TreeOf(h, v)]

\* the createMany callback (lines 100-104): processCreatePayload on every item
\* n counts the items handed to processCreatePayload
RECURSIVE CreateManyItems(_, _, _, _, _), CreateManyItemsFrom(_, _, _, _, _)
CreateManyItemsFrom(r, user, model, items, i) ==
    IF Failed(r) THEN [h |-> r.h, err |-> r.err, n |-> i]
    ELSE CreateManyItems(r.h, user, model, items, i + 1)

CreateManyItems(h, user, model, items, i) ==
    IF i > Len(items) THEN [h |-> h, err |-> NoError, n |-> Len(items)]
    ELSE CreateManyItemsFrom(ProcessCreatePayload(h, user, model, items[i]),
                             user, model, items, i)

\* callbacks in which upsert hands over the whole of its arguments
CallbackItems_UpsertArgs(h, t) ==
    CASE t.kind = "create" -> <<t.v>>
      [] t.kind = "upsert" -> <<t.v>>
      [] t.kind = "createMany" -> Enumerate(h, GetOpt(h, t.v, "data"))
      [] OTHER -> <<>>

\* callbacks in which upsert hands over its update branch
CallbackItems_UpsertUpdate(h, t) ==
    CASE t.kind = "create" -> <<t.v>>
      [] t.kind = "upsert" -> <<Get(h, t.v, "update")>>
      [] t.kind = "createMany" -> Enumerate(h, GetOpt(h, t.v, "data"))
      [] OTHER -> <<>>

\* the payloads the callback of a task hands to processCreatePayload
CallbackItems(h, t) ==
    CASE t.kind = "create" -> <<t.v>>
      [] t.kind = "upsert" -> <<Get(h, t.v, "create")>>
      [] t.kind = "createMany" -> Enumerate(h, GetOpt(h, t.v, "data"))
      [] OTHER -> <<>>

\* the callback the handler registers for a task (lines 92-104): [h, err, n]
Callback(h, user, t) == CreateManyItems(h, user, t.model, CallbackItems(h, t), 1)

\* the first n payloads of the callback of a task, as the callback finds them
CallbackNodes(h, t, cb, n) ==
    LET one(item) == Node(cb, t.kind, t.model, h, item)
    IN SeqMap(one, SubSeq(CallbackItems(h, t), 1, n))

\* two visits in a row: the second is not made when the first throws
AndThen(c, u) ==
    IF c.err.kind # "none" THEN c ELSE [err |-> u.err, tasks |-> c.tasks \o u.tasks]

\* the sub-payloads the visitor descends into after the callback: [err, tasks]
Descend(h, t) ==
    CASE t.kind = "create" -> VisitSubPayload(h, t.model, t.v)
      [] t.kind = "createMany" -> VisitSubPayload(h, t.model, GetOpt(h, t.v, "data"))
      [] t.kind = "upsert" ->
           AndThen(VisitSubPayload(h, t.model, Get(h, t.v, "create")),
                   VisitSubPayload(h, t.model, Get(h, t.v, "update")))
      [] t.kind = "update" ->
           LET d == Get(h, t.v, "data")
           IN VisitSubPayload(h, t.model, IF t.top \/ TypeofObject(d) THEN d ELSE t.v)
      [] t.kind = "connectOrCreate" -> VisitSubPayload(h, t.model, Get(h, t.v, "create"))
      [] OTHER -> [err |-> NoError, tasks |-> <<>>]


(***************************************************************************)
(* The argument trees callers pass.                                        *)
(***************************************************************************)
\* a key that may be absent: the parts it can contribute to an object
Opt(k, S) == {{}} \cup {Under(k, T) : T \in S}

Must(k, S) == {Under(k, T) : T \in S}

\* the objects made of one part of each of the part sets P1, P2, ...
Both(P1, P2) == {a \cup b : a \in P1, b \in P2}

Objects(P) == {ObjT({u}) : u \in P}

\* the arrays of lo..hi elements of S
Arrays(S, lo, hi) == {ArrT(ts) : ts \in UNION {[1..n -> S] : n \in lo..hi}}

ConnectUser == Objects(Must("connect", Objects(Must("id", {Leaf("u2")}))))

UserNodes == Objects(Both(Opt("name", {Leaf("n")}), Opt("invitedBy", {Leaf("u2")})))

\* comments as nested under a post or as createMany elements
CommentItems ==
    Objects(Must("text", {Leaf("c")}))
      \cup Objects(Both(Must("text", {Leaf("c")}), Must("userId", {Leaf("u2")})))
      \cup Objects(Must("member", ConnectUser))

CommentNodes ==
    Objects(Both(Both(Opt("text", {Leaf("c")}), Opt("orgId", {Leaf("o2")})),
                 Both(Opt("userId", {Leaf("u2")}), Opt("member", ConnectUser))))

WhereId == Objects(Must("id", {Leaf("w")}))

\* the payloads of a relation field holding several comments
CommentWrites ==
    Objects(Must("create", CommentItems \cup Arrays(CommentItems, 1, MaxItems)))
      \cup Objects(Must("createMany", Objects(Must("data", Arrays(CommentItems, 1, MaxItems)))))
      \cup Objects(Must("connect", WhereId))
      \cup Objects(Both(Must("create", Objects(Must("text", {Leaf("c")}))), Must("connect", WhereId)))
      \cup Objects(Must("upsert", Objects(Both(Both(Must("where", WhereId), Must("create", CommentItems)),
                                               Must("update", Objects(Must("text", {Leaf("c2")})))))))
      \cup Objects(Must("connectOrCreate",
                        Objects(Both(Must("where", WhereId), Must("create", CommentItems)))))

PostScalars ==
    Both(Opt("title", {Leaf("t")}), Opt("org", {Leaf("o2"), Leaf("null"), Leaf("undefined")}))

PostNodes ==
    Objects(Both(Both(PostScalars, Opt("authorId", {Leaf("u2"), Leaf("undefined")})),
                 Opt("author", ConnectUser \cup Objects(Must("create", UserNodes)))))
      \cup Objects(Both(Opt("title", {Leaf("t")}), Must("comments", CommentWrites)))
      \cup Objects(Both(Must("title", {Leaf("t")}), Must("bogus", {Leaf("x")})))

PostItems ==
    Objects(Both(Opt("title", {Leaf("t")}), Opt("authorId", {Leaf("u2")})))

AddressValues == Objects(Both(Opt("city", {Leaf("c")}), Opt("zone", {Leaf("z")})))

ProfileItems ==
    {EmptyObjectT, Leaf("null"), Leaf("s")}
      \cup Objects(Both(Must("bio", {Leaf("b")}), Must("by", {Leaf("u2")})))
      \cup Objects(Must("address", {EmptyObjectT}))

ProfileValues ==
    Objects(Both(Both(Opt("bio", {Leaf("b")}), Opt("by", {Leaf("u2")})),
                 Opt("address", AddressValues \cup {Leaf("null")}
                                  \cup Arrays({EmptyObjectT}, 1, MaxItems))))

DocNodes ==
    Objects(Both(Opt("meta", ProfileValues \cup {Leaf("null"), Leaf("s")}
                               \cup Arrays(ProfileItems, 0, MaxItems)),
                 Opt("owner", {Leaf("u2")})))

DocItems == Objects(Opt("meta", {EmptyObjectT} \cup Arrays({EmptyObjectT}, 1, MaxItems)))

\* the create payloads of a model
Nodes(model) ==
    CASE model = "User" -> UserNodes
      [] model = "Post" -> PostNodes
      [] model = "Comment" -> CommentNodes
      [] model = "Doc" -> DocNodes
      [] model = "Memo" ->
           Objects(Opt("info", {EmptyObjectT} \cup Objects(Must("label", {Leaf("l")}))))
      [] model = "Orphan" -> Objects(Opt("ref", {Leaf("r")}))
      [] model = "Ghost" -> Objects(Opt("gid", {Leaf("g")}))
      [] model = "Loose" -> Objects(Opt("lid", {Leaf("l")})) \cup Objects(Must("link", ConnectUser))

\* the elements of a createMany, and the create branch of an upsert
Items(model) ==
    CASE model = "User" -> UserNodes
      [] model = "Post" -> PostItems
      [] model = "Comment" -> CommentItems
      [] model = "Doc" -> DocItems
      [] OTHER -> {EmptyObjectT}

\* update data: scalars, and for a post the writes nested under its comments
Updates(model) ==
    IF model = "Post"
    THEN Objects(Must("title", {Leaf("t2")}))
           \cup Objects(Must("comments", Objects(Must("create", CommentItems))))
           \cup Objects(Must("comments", Objects(Must("update",
                  Objects(Both(Must("where", WhereId),
                               Must("data", Objects(Must("text", {Leaf("c2")})))))))))
           \cup Objects(Must("comments", Objects(Must("delete", WhereId))))
    ELSE {EmptyObjectT}

\* the argument trees of an action on a model
ArgTrees(action, model) ==
    CASE action = "create" -> Objects(Opt("data", Nodes(model)))
      [] action \in {"createMany", "createManyAndReturn"} ->
           Objects(Must("data", Items(model) \cup Arrays(Items(model), 0, MaxItems)))
      [] action = "upsert" ->
           Objects(Both(Both(Must("where", WhereId), Opt("create", Items(model))),
                        Must("update", Updates(model))))
      [] action = "update" ->
           Objects(Both(Both(Must("where", WhereId), Must("data", Updates(model))),
                        Opt("include", Objects(Must("comments", {Leaf("true")})))))
      [] action = "updateMany" ->
           Objects(Both(Must("where", WhereId), Must("data", Updates(model))))
      [] OTHER -> Objects(Opt("where", WhereId))

Actions == ACTIONS_WITH_WRITE_PAYLOAD \cup {"findMany", "delete"}

(***************************************************************************)
(* The enhanced client: calls in progress on it, the heap their objects    *)
(* live in, and the calls that reached the wrapped client.                 *)
(***************************************************************************)
VARIABLES
    ctx,      \* the identity the enhanced client was created with
    heap,     \* the JavaScript objects
    calls,    \* per call: where it stands, its arguments, what it has visited
    inner,    \* the invocations of the wrapped client, in order
    db,       \* the rows of the raw client, and the last call on encrypted fields
    repl,     \* the variables of a REPL session, and its server's context and prompt
    generator,\* a PrismaSchemaGenerator: its mode, its short names, what it generated
    enhancer  \* an EnhancerGenerator: the source text it transforms

vars == <<ctx, heap, calls, inner, db, repl, generator, enhancer>>

\* the tools that take no part in the calls on a client
ToolsIdle == repl = <<>> /\ generator = <<>> /\ enhancer = <<>>

\* no call yet on the encrypted fields
NoCall ==
    [op |-> "none", keys |-> <<>>, ids |-> <<>>, given |-> <<>>, applied |-> <<>>,
     result |-> <<>>, rejected |-> FALSE, trace |-> <<>>]

\* rows: what the raw client stores; written: what the callers wrote there
EmptyDb == [rows |-> <<>>, written |-> <<>>, out |-> NoCall]

Idle ==
    [pc |-> "idle", action |-> "", model |-> "", user |-> Anonymous,
     given |-> FALSE, tree |-> {}, args |-> Undefined, newArgs |-> Undefined,
     agenda |-> <<>>, nodes |-> <<>>, callbacks |-> 0, err |-> NoError]

InitCalls(ids) ==
    /\ ctx \in Users
    /\ heap = <<>>
    /\ calls = [c \in ids |-> Idle]
    /\ inner = <<>>
    /\ db = EmptyDb
    /\ ToolsIdle

Init == InitCalls({"c1"})

\* the payload processed in place
CloneArgs_InPlace(h, args) == [h |-> h, v |-> args]

\* `const newArgs = clone(args)` (line 62)
CloneArgs(h, args) == Clone(h, args)

\* preprocessArgs that takes every action for one with a write payload
PreprocessArgs_EveryAction(h, model, action, args) ==
    IF ~Falsy(args)
    THEN LET c == CloneArgs(h, args)
         IN [h |-> c.h, newArgs |-> c.v, agenda |-> VisitTop(c.h, model, action, c.v)]
    ELSE [h |-> h, newArgs |-> args, agenda |-> <<>>]

\* preprocessArgs, up to the first payload the visitor hands to a callback:
\* [h, newArgs, agenda]
PreprocessArgs(h, model, action, args) ==
    IF ~Falsy(args) /\ action \in ACTIONS_WITH_WRITE_PAYLOAD
    THEN LET c == CloneArgs(h, args)
         IN [h |-> c.h, newArgs |-> c.v, agenda |-> VisitTop(c.h, model, action, c.v)]
    ELSE [h |-> h, newArgs |-> args, agenda |-> <<>>]

\* call c starts: the handler of `db.<model>`, constructed with the identity of
\* the client, preprocesses the arguments b.v (of tree `tree`, in heap b.h)
Start(c, action, model, given, tree, b) ==
    LET p == PreprocessArgs(b.h, model, action, b.v)
    IN /\ heap' = p.h
       /\ calls' = [calls EXCEPT ![c] =
            [Idle EXCEPT !.pc = IF p.agenda = <<>> THEN "ready" ELSE "visiting",
                         !.action = action, !.model = model, !.user = ctx,
                         !.given = given, !.tree = tree,
                         !.args = b.v, !.newArgs = p.newArgs, !.agenda = p.agenda]]

\* the arguments a caller builds from a tree; none when the call has none
Given(h, given, tree) ==
    IF given THEN BuildTree(h, tree) ELSE [h |-> h, v |-> Undefined]

\* the caller invokes `db.<model>.<action>(args)`; args may be left out
Invoke(c) ==
    /\ calls[c].pc = "idle"
    /\ \E action \in Actions, model \in Models, given \in BOOLEAN :
         \E tree \in IF given THEN ArgTrees(action, model) ELSE {{}} :
           Start(c, action, model, given, tree, Given(heap, given, tree))
    /\ UNCHANGED <<ctx, inner, db, repl, generator, enhancer>>

\* the identity read from the client that is current when a default is computed
UserContext_Current(call) == ctx

\* `this.userContext`, set when the handler was constructed (line 49)
UserContext(call) == call.user

\* a visit whose exception is swallowed: the call goes on as if it had returned
AfterVisit_Swallowed(call, t, seen, r, d) ==
    LET err == IF Failed(r) THEN r.err ELSE d.err
    IN [call EXCEPT !.nodes = call.nodes \o seen,
                    !.callbacks = IF t.kind \in {"create", "upsert", "createMany"}
                                  THEN @ + 1 ELSE @,
                    !.err = err,
                    !.agenda = IF err.kind # "none" THEN <<>> ELSE d.tasks \o Tail(call.agenda),
                    !.pc = IF err.kind # "none" \/ d.tasks \o Tail(call.agenda) = <<>>
                           THEN "ready" ELSE "visiting"]

\* the call after the callback of task t returned r and the visitor found d
\* under the payload; an exception of either ends the call (line 107)
AfterVisit(call, t, seen, r, d) ==
    LET err == IF Failed(r) THEN r.err ELSE d.err
        agenda == d.tasks \o Tail(call.agenda)
    IN [call EXCEPT !.nodes = call.nodes \o seen,
                    !.callbacks = IF t.kind \in {"create", "upsert", "createMany"}
                                  THEN @ + 1 ELSE @,
                    !.err = err,
                    !.agenda = IF err.kind # "none" THEN @ ELSE agenda,
                    !.pc = IF err.kind # "none" THEN "failed"
                           ELSE IF agenda = <<>> THEN "ready"
                           ELSE "visiting"]

\* r is what the callback returned
VisitDone(c, t, r) ==
    /\ heap' = r.h
    /\ calls' = [calls EXCEPT ![c] =
                   AfterVisit(calls[c], t, CallbackNodes(heap, t, calls[c].callbacks + 1, r.n),
                              r, Descend(r.h, t))]

\* the visitor hands the next payload to its callback and, when the callback
\* returns, descends into the payload
VisitStep(c) ==
    /\ calls[c].pc = "visiting"
    /\ VisitDone(c, Head(calls[c].agenda),
                 Callback(heap, UserContext(calls[c]), Head(calls[c].agenda)))
    /\ UNCHANGED <<ctx, inner, db, repl, generator, enhancer>>

\* the proxy forwards the call, with the arguments preprocessArgs returned
Forward(c) ==
    /\ calls[c].pc = "ready"
    /\ inner' = Append(inner, [call |-> c, action |-> calls[c].action, model |-> calls[c].model,
                               args |-> calls[c].newArgs])
    /\ calls' = [calls EXCEPT ![c].pc = "done"]
    /\ UNCHANGED <<ctx, heap, db, repl, generator, enhancer>>

Next ==
    \/ \E c \in DOMAIN calls : Invoke(c)
    \/ \E c \in DOMAIN calls : VisitStep(c)
    \/ \E c \in DOMAIN calls : Forward(c)

Spec == Init /\ [][Next]_vars

(***************************************************************************)
(* Calls in progress at the same time.  Two calls are made through the     *)
(* enhanced client; the visitor awaits, so the calls interleave between    *)
(* callbacks.                                                              *)
(***************************************************************************)
\* longest array in the arguments of calls made at the same time
MaxPairItems == 1

\* preprocessWritePayload from the first callback to the end, uninterrupted
RECURSIVE RunAgenda(_, _, _), RunAgendaFrom(_, _, _, _)
RunAgendaFrom(r, d, user, agenda) ==
    IF Failed(r) THEN [h |-> r.h, err |-> r.err]
    ELSE IF d.err.kind # "none" THEN [h |-> r.h, err |-> d.err]
    ELSE RunAgenda(r.h, user, d.tasks \o Tail(agenda))

RunAgenda(h, user, agenda) ==
    IF agenda = <<>> THEN [h |-> h, err |-> NoError]
    ELSE LET r == Callback(h, user, Head(agenda))
         IN RunAgendaFrom(r, Descend(r.h, Head(agenda)), user, agenda)

\* preprocessArgs of a call made alone: the tree it returns and its error
Alone(action, model, user, given, tree) ==
    LET b == Given(<<>>, given, tree)
        p == PreprocessArgs(b.h, model, action, b.v)
        r == RunAgenda(p.h, user, p.agenda)
    IN [tree |-> TreeOf(r.h, p.newArgs), err |-> r.err]

\* the calls made at the same time: writes that take several callbacks
PairModels(action) == IF action = "createMany" THEN {"Comment"} ELSE {"Post"}

PairItems ==
    Objects(Must("text", {Leaf("c")}))
      \cup Objects(Both(Must("text", {Leaf("c")}), Must("userId", {Leaf("u2")})))

PairTrees(action) ==
    CASE action = "create" ->
           Objects(Must("data", Objects(Must("comments",
             Objects(Must("create", Arrays(PairItems, 1, MaxPairItems)))))))
      [] action = "createMany" ->
           Objects(Must("data", Arrays(PairItems, 1, MaxPairItems)))
      [] action = "update" -> ArgTrees("update", "Post")
      [] OTHER -> Objects(Must("where", WhereId))

PairActions == {"create", "createMany", "update", "findMany"}

InvokePair(c) ==
    /\ calls[c].pc = "idle"
    /\ \E action \in PairActions :
         \E model \in PairModels(action), tree \in PairTrees(action) :
           Start(c, action, model, TRUE, tree, Given(heap, TRUE, tree))
    /\ UNCHANGED <<ctx, inner, db, repl, generator, enhancer>>

\* the caller passes to call c the argument object it passed to call d
InvokeShared(c) ==
    /\ calls[c].pc = "idle"
    /\ \E d \in DOMAIN calls \ {c} :
         /\ calls[d].given
         /\ Start(c, calls[d].action, calls[d].model, TRUE, TreeOf(heap, calls[d].args),
                  [h |-> heap, v |-> calls[d].args])
    /\ UNCHANGED <<ctx, inner, db, repl, generator, enhancer>>

InitConcurrent == InitCalls({"c1", "c2"})

NextConcurrent ==
    \/ \E c \in DOMAIN calls : InvokePair(c)
    \/ \E c \in DOMAIN calls : InvokeShared(c)
    \/ \E c \in DOMAIN calls : VisitStep(c)
    \/ \E c \in DOMAIN calls : Forward(c)

SpecConcurrent == InitConcurrent /\ [][NextConcurrent]_vars

(***************************************************************************)
(* Re-authentication.  The REPL's setAuth replaces the enhanced client by  *)
(* one made for another user; a call made through the client it replaces   *)
(* may be in progress.                                                     *)
(***************************************************************************)
\* setAuth(_user): `db = enhance(prisma, { user }, ...)` (part_002, lines 208-213)
SetAuth(user) ==
    /\ ctx # user
    /\ ctx' = user
    /\ UNCHANGED <<heap, calls, inner, db, repl, generator, enhancer>>

NextReauth ==
    \/ \E c \in DOMAIN calls : Invoke(c)
    \/ \E c \in DOMAIN calls : VisitStep(c)
    \/ \E c \in DOMAIN calls : Forward(c)
    \/ \E user \in Users : SetAuth(user)

SpecReauth == Init /\ [][NextReauth]_vars


(***************************************************************************)
(* A client enhanced with encryption, and with policy in front of it.      *)
(* A User row has the encrypted field `encrypted_value` (checked by        *)
(* `@length(0, MaxLength)` when policy is on) and posts with the encrypted *)
(* field `title`.  A string is the sequence of its characters.             *)
(***************************************************************************)
MaxRows == 2

MaxLength == 6

\* the characters of a plaintext are 0..Radix-1
Radix == 4

\* a plaintext of n characters
Text(n) == [i \in 1..n |-> i % Radix]

\* the empty string is stored as it is
IsNullish(v) == v = <<>>

\* the keys: two that clients encrypt with, one that matches nothing stored
EncryptionKeys == {1, 2}

OtherKey == 3

\* a ciphertext: a mark, the digest of the key, the characters shifted by it
Cipher(k, s) == <<Radix, k>> \o [i \in DOMAIN s |-> (s[i] + k) % Radix]

IsCipher(s) == Len(s) >= 2 /\ s[1] = Radix

KeyOf(s) == s[2]

Decipher(k, s) == [i \in 1..(Len(s) - 2) |-> (s[i + 2] + Radix - (k % Radix)) % Radix]

EncryptField(k, v) == IF IsNullish(v) THEN v ELSE Cipher(k, v)

\* decryption that tries the encryption key only
DecryptField_FirstKey(keys, v) ==
    IF IsNullish(v) \/ ~IsCipher(v) THEN v
    ELSE IF keys[1] = KeyOf(v) THEN Decipher(keys[1], v)
    ELSE v

\* keys: the encryption key, then the decryption keys; a value no key of
\* which matches is returned as it is stored
DecryptField(keys, v) ==
    IF IsNullish(v) \/ ~IsCipher(v) THEN v
    ELSE IF \E i \in DOMAIN keys : keys[i] = KeyOf(v)
    THEN Decipher(KeyOf(v), v)
    ELSE v

\* a user with its posts, as written or as stored
Item(value, posts) == [value |-> value, posts |-> posts]

EncryptItem(k, item) ==
    Item(EncryptField(k, item.value),
         [i \in DOMAIN item.posts |-> EncryptField(k, item.posts[i])])

\* post-processing that leaves the included posts alone
DecryptItem_Flat(keys, item) == Item(DecryptField(keys, item.value), item.posts)

\* post-processing of a result, the included posts with it
DecryptItem(keys, item) ==
    Item(DecryptField(keys, item.value),
         [i \in DOMAIN item.posts |-> DecryptField(keys, item.posts[i])])

\* `@length(0, MaxLength)` on encrypted_value
PolicyCheck(item) == Len(item.value) <= MaxLength

Client(policy, encryptionKey, decryptionKeys) ==
    [policy |-> policy, encryptionKey |-> encryptionKey, decryptionKeys |-> decryptionKeys]

\* the clients that write: one with policy, one without, each with its key
Writers == {Client(TRUE, 1, <<>>), Client(FALSE, 2, <<>>)}

\* the clients that read: those, and clients with decryption keys
Readers ==
    Writers \cup {Client(FALSE, 1, <<1, 1, 2, 2>>), Client(FALSE, 1, <<2, OtherKey>>),
                  Client(FALSE, OtherKey, <<1, 2>>), Client(FALSE, OtherKey, <<>>)}

DecryptionKeys(client) == <<client.encryptionKey>> \o client.decryptionKeys

\* the layers a write goes through, encryption in front of policy
WriteLayers_EncryptionFirst(client) ==
    <<"encryption">> \o (IF client.policy THEN <<"policy">> ELSE <<>>) \o <<"raw">>

\* the layers a write goes through, the outermost first
WriteLayers(client) ==
    (IF client.policy THEN <<"policy">> ELSE <<>>) \o <<"encryption", "raw">>

Saw(layer, items) == [layer |-> layer, items |-> items]

\* a write going down the layers: [ok, items: what reaches the raw client, trace]
RECURSIVE RunLayers(_, _, _, _)
RunLayers(layers, client, items, trace) ==
    IF layers = <<>> THEN [ok |-> TRUE, items |-> items, trace |-> trace]
    ELSE LET seen == Append(trace, Saw(Head(layers), items)) IN
         CASE Head(layers) = "policy" ->
                IF \A i \in DOMAIN items : PolicyCheck(items[i])
                THEN RunLayers(Tail(layers), client, items, seen)
                ELSE [ok |-> FALSE, items |-> items, trace |-> seen]
           [] Head(layers) = "encryption" ->
                RunLayers(Tail(layers), client,
                          [i \in DOMAIN items |-> EncryptItem(client.encryptionKey, items[i])],
                          seen)
           [] OTHER -> RunLayers(Tail(layers), client, items, seen)

WritePipeline(client, items) == RunLayers(WriteLayers(client), client, items, <<>>)

\* what the callers write
Secrets == {<<>>, Text(MaxLength), Text(MaxLength + 1)}

Titles == {Text(1)}

UserItems == {Item(v, <<>>) : v \in Secrets} \cup {Item(Text(MaxLength), <<t>>) : t \in Titles}

\* what a caller wrote, and the key each value was encrypted with
KeyFor(client, v) == IF IsNullish(v) THEN 0 ELSE client.encryptionKey

Written(client, item) ==
    [item |-> item, key |-> KeyFor(client, item.value),
     postKeys |-> [i \in DOMAIN item.posts |-> KeyFor(client, item.posts[i])]]

Rejected(op, client, given, w) ==
    [op |-> op, keys |-> DecryptionKeys(client), ids |-> <<>>, given |-> given,
     applied |-> <<>>, result |-> <<>>, rejected |-> TRUE, trace |-> w.trace]

\* the wrapped client creates the rows that reached it; the result goes back
\* up through the encryption layer
CreateRows(op, client, given, w) ==
    IF ~w.ok THEN db' = [db EXCEPT !.out = Rejected(op, client, given, w)]
    ELSE db' = [rows |-> db.rows \o w.items,
                written |-> db.written \o [i \in DOMAIN given |-> Written(client, given[i])],
                out |-> [op |-> op, keys |-> DecryptionKeys(client),
                         ids |-> [i \in DOMAIN given |-> Len(db.rows) + i],
                         given |-> given,
                         applied |-> [i \in DOMAIN given |-> i],
                         result |-> IF op = "createMany" THEN <<>>
                                    ELSE [i \in DOMAIN given |->
                                            DecryptItem(DecryptionKeys(client), w.items[i])],
                         rejected |-> FALSE, trace |-> w.trace]]

\* the wrapped client updates encrypted_value of row id with what reached it
UpdateRow(op, client, id, given, j, w) ==
    IF ~w.ok THEN db' = [db EXCEPT !.out = Rejected(op, client, given, w)]
    ELSE db' = [rows |-> [db.rows EXCEPT ![id].value = w.items[j].value],
                written |-> [db.written EXCEPT ![id].item.value = given[j].value,
                                               ![id].key = KeyFor(client, given[j].value)],
                out |-> [op |-> op, keys |-> DecryptionKeys(client), ids |-> <<id>>,
                         given |-> given, applied |-> <<j>>,
                         result |-> <<DecryptItem(DecryptionKeys(client),
                                                  Item(w.items[j].value, <<>>))>>,
                         rejected |-> FALSE, trace |-> w.trace]]

EncCreate(client, item) ==
    /\ Len(db.rows) < MaxRows
    /\ CreateRows("create", client, <<item>>, WritePipeline(client, <<item>>))
    /\ UNCHANGED <<ctx, heap, calls, inner, repl, generator, enhancer>>

EncCreateMany(op, client, items) ==
    /\ Len(db.rows) + Len(items) <= MaxRows
    /\ CreateRows(op, client, items, WritePipeline(client, items))
    /\ UNCHANGED <<ctx, heap, calls, inner, repl, generator, enhancer>>

EncUpdate(client, id, value) ==
    /\ id \in DOMAIN db.rows
    /\ UpdateRow("update", client, id, <<Item(value, <<>>)>>, 1,
                 WritePipeline(client, <<Item(value, <<>>)>>))
    /\ UNCHANGED <<ctx, heap, calls, inner, repl, generator, enhancer>>

\* upsert of row id: updated when it is there, created when it is the next
EncUpsert(client, id, create, update) ==
    /\ id \in 1..(Len(db.rows) + 1) /\ id <= MaxRows
    /\ LET given == <<create, Item(update, <<>>)>>
           w == WritePipeline(client, given)
       IN IF id \in DOMAIN db.rows
          THEN UpdateRow("upsert", client, id, given, 2, w)
          ELSE IF ~w.ok THEN db' = [db EXCEPT !.out = Rejected("upsert", client, given, w)]
          ELSE db' = [rows |-> Append(db.rows, w.items[1]),
                      written |-> Append(db.written, Written(client, create)),
                      out |-> [op |-> "upsert", keys |-> DecryptionKeys(client), ids |-> <<id>>,
                               given |-> given, applied |-> <<1>>,
                               result |-> <<DecryptItem(DecryptionKeys(client), w.items[1])>>,
                               rejected |-> FALSE, trace |-> w.trace]]
    /\ UNCHANGED <<ctx, heap, calls, inner, repl, generator, enhancer>>

\* findUnique with the posts included, through an enhanced client
EncRead(client, id) ==
    /\ id \in DOMAIN db.rows
    /\ db' = [db EXCEPT !.out =
                [op |-> "read", keys |-> DecryptionKeys(client), ids |-> <<id>>,
                 given |-> <<>>, applied |-> <<>>,
                 result |-> <<DecryptItem(DecryptionKeys(client), db.rows[id])>>,
                 rejected |-> FALSE,
                 trace |-> <<Saw("raw", <<db.rows[id]>>), Saw("encryption", <<db.rows[id]>>)>>]]
    /\ UNCHANGED <<ctx, heap, calls, inner, repl, generator, enhancer>>

\* findUnique through the raw client
RawRead(id) ==
    /\ id \in DOMAIN db.rows
    /\ db' = [db EXCEPT !.out =
                [op |-> "raw", keys |-> <<>>, ids |-> <<id>>, given |-> <<>>, applied |-> <<>>,
                 result |-> <<db.rows[id]>>, rejected |-> FALSE,
                 trace |-> <<Saw("raw", <<db.rows[id]>>)>>]]
    /\ UNCHANGED <<ctx, heap, calls, inner, repl, generator, enhancer>>

Batches == {<<a>> : a \in UserItems} \cup {<<a, Item(Text(MaxLength), <<>>)>> : a \in UserItems}

InitEncrypted ==
    /\ ctx = Anonymous
    /\ heap = <<>>
    /\ calls = [c \in {"c1"} |-> Idle]
    /\ inner = <<>>
    /\ db = EmptyDb
    /\ ToolsIdle

NextEncrypted ==
    \/ \E client \in Writers, item \in UserItems : EncCreate(client, item)
    \/ \E op \in {"createMany", "createManyAndReturn"}, client \in Writers, items \in Batches :
         EncCreateMany(op, client, items)
    \/ \E client \in Writers, id \in 1..MaxRows, value \in Secrets : EncUpdate(client, id, value)
    \/ \E client \in Writers, id \in 1..MaxRows, create \in UserItems, update \in Secrets \ {<<>>} :
         EncUpsert(client, id, create, update)
    \/ \E client \in Readers, id \in 1..MaxRows : EncRead(client, id)
    \/ \E id \in 1..MaxRows : RawRead(id)

SpecEncrypted == InitEncrypted /\ [][NextEncrypted]_vars

(***************************************************************************)
(* What the properties below speak of.                                     *)
(***************************************************************************)
\* preprocessArgs of the call returned
Succeeded(c) == calls[c].pc \in {"ready", "done"}

\* the create-role payloads the handler was given in a call
NodesOf(c) == {calls[c].nodes[i] : i \in DOMAIN calls[c].nodes}

\* the payloads that are objects
PayloadsOf(c) == {n \in NodesOf(c) : IsRef(n.v)}

\* the non-type-def fields of a payload's model
PlainFields(n) ==
    {GetFields(n.model)[i] : i \in {j \in DOMAIN GetFields(n.model) : ~GetFields(n.model)[j].isTypeDef}}

\* the fields with a default provider that the caller's payload does not set
Omitted(n) == {f \in PlainFields(n) : f.provider # "" /\ f.name \notin DOMAIN n.before.kv}

\* the caller's payload sets the relation field a foreign key backs
RelationGiven(n, f) ==
    f.isForeignKey /\ f.relationField # "" /\ f.relationField \in DOMAIN n.before.kv

\* the key of the relation's foreignKeyMapping that is mapped to the field
OppositeOf(model, f) ==
    IF f.isForeignKey /\ f.relationField # "" /\ HasField(model, f.relationField)
    THEN GetOppositeFkFieldName(FieldOf(model, f.relationField), f)
    ELSE ""

\* `data.<relation>?.connect?.<opposite>` in the processed payload
ViaConnect(n, f) ==
    GetOpt(heap, GetOpt(heap, Get(heap, n.v, f.relationField), "connect"), OppositeOf(n.model, f))

\* the processed payload holds val for the field, as the scalar or in the connect
HoldsDefault(n, f, val) ==
    \/ Get(heap, n.v, f.name) = val
    \/ OppositeOf(n.model, f) # "" /\ ViaConnect(n, f) = val

\* the caller's payload sets a foreign key of its model as a scalar
UnsafeGiven(n) ==
    \E k \in DOMAIN n.before.kv : HasField(n.model, k) /\ FieldOf(n.model, k).isForeignKey

(***************************************************************************)
(* C1.  Default injection: in a call made with an identity, every create   *)
(* payload holds provider(identity) for each non-type-def field that has a *)
(* provider and that the caller left out, as the scalar or as the opposite *)
(* key of the relation's connect.  It is read with the exception          *)
(* the specification itself makes: a foreign key whose relation the caller *)
(* set is left alone.  The code breaks it for the second foreign key of a  *)
(* relation backed by two.                                                 *)
(***************************************************************************)
C1_DefaultInjected ==
    \A c \in DOMAIN calls :
      Succeeded(c) /\ calls[c].user.present =>
        \A n \in PayloadsOf(c) :
          \A f \in Omitted(n) :
            RelationGiven(n, f) \/ HoldsDefault(n, f, ProviderValue(f, calls[c].user))

(***************************************************************************)
(* C2.  Explicit relation wins: when the caller's create payload sets the  *)
(* relation field that an omitted, defaulted foreign key backs, the        *)
(* processed payload gets no scalar for the foreign key, and the relation  *)
(* payload is the caller's: the same keys, everything the caller supplied, *)
(* and nothing else but what the nested creates under it received as       *)
(* defaults of their own.                                                  *)
(***************************************************************************)
\* the keys of a relation payload that hold create payloads
CreateKeys == {"create", "createMany", "connectOrCreate", "upsert"}

\* the pairs of a tree that are values, not marks of an empty object or array
Values(T) == {e \in T : e[2] \notin {"{}", "[]"}}

RelationKept(n, rel) ==
    LET now == TreeOf(heap, Get(heap, n.v, rel))
        was == SubTree(n.tree, rel)
    IN /\ heap[n.v.ref].kv[rel] = n.before.kv[rel]
       /\ TreeKeys(now) = TreeKeys(was)
       /\ \A k \in TreeKeys(was) \ CreateKeys : SubTree(now, k) = SubTree(was, k)
       /\ Values(was) \subseteq now

C2_ExplicitRelationWins ==
    \A c \in DOMAIN calls :
      \A n \in PayloadsOf(c) :
        \A f \in Omitted(n) :
          RelationGiven(n, f) =>
            /\ f.name \notin DOMAIN heap[n.v.ref].kv
            /\ RelationKept(n, f.relationField)

\* C2 as stated: the relation payload equals the one the caller supplied
C2_RelationPayloadEqual ==
    \A c \in DOMAIN calls :
      \A n \in PayloadsOf(c) :
        \A f \in Omitted(n) :
          RelationGiven(n, f) =>
            /\ f.name \notin DOMAIN heap[n.v.ref].kv
            /\ TreeOf(heap, Get(heap, n.v, f.relationField)) = SubTree(n.tree, f.relationField)

\* a post created with an author to connect: `org` received its default, the
\* author did not
C2_Witness ==
    \E c \in DOMAIN calls :
      /\ calls[c].pc = "done" /\ calls[c].user.present
      /\ \E n \in PayloadsOf(c) :
           /\ n.model = "Post"
           /\ "authorId" \notin DOMAIN n.before.kv
           /\ "connect" \in TreeKeys(SubTree(n.tree, "author"))
           /\ "org" \in DOMAIN heap[n.v.ref].kv \ DOMAIN n.before.kv

(***************************************************************************)
(* C3.  Foreign key injection shape.  A foreign key default is injected    *)
(* when the payload omits the field, the provider's value is defined and   *)
(* the payload holds no relation field for it when its turn comes.  In an  *)
(* unsafe mutate the processed payload then holds the value as the scalar  *)
(* and gets no relation key; otherwise it holds no scalar and              *)
(* <relationField>.connect.<key> holds the value, key being the key of the *)
(* relation's foreignKeyMapping that is mapped to the foreign key.         *)
(***************************************************************************)
FieldIndex(model, name) ==
    CHOOSE i \in DOMAIN GetFields(model) : GetFields(model)[i].name = name

\* an omitted foreign key of the same relation, declared earlier, was injected
EarlierOfRelation(n, f, user) ==
    \E g \in Omitted(n) :
      /\ g.isForeignKey /\ g.relationField = f.relationField
      /\ FieldIndex(n.model, g.name) < FieldIndex(n.model, f.name)
      /\ ProviderValue(g, user) # Undefined

\* the foreign key defaults injected into a payload, scalar or connect
InjectedFks(n, user) ==
    {f \in Omitted(n) : /\ f.isForeignKey
                        /\ ProviderValue(f, user) # Undefined
                        /\ ~RelationGiven(n, f)
                        /\ UnsafeGiven(n) \/ ~EarlierOfRelation(n, f, user)}

\* the keys of the mapping of the relation that are mapped to the field
KeysMappedTo(n, f) ==
    LET m == FieldOf(n.model, f.relationField).foreignKeyMapping
    IN {m[i][1] : i \in {j \in DOMAIN m : m[j][2] = f.name}}

ScalarShape(n, f, val) ==
    /\ HasKey(heap, n.v, f.name) /\ Get(heap, n.v, f.name) = val
    /\ f.relationField \notin DOMAIN heap[n.v.ref].kv

ConnectShape(n, f, val) ==
    /\ f.name \notin DOMAIN heap[n.v.ref].kv
    /\ HasField(n.model, f.relationField)
    /\ \E k \in KeysMappedTo(n, f) :
         LET connect == GetOpt(heap, Get(heap, n.v, f.relationField), "connect")
         IN HasKey(heap, connect, k) /\ Get(heap, connect, k) = val

C3_InjectionShape ==
    \A c \in DOMAIN calls :
      calls[c].user.present /\ calls[c].err.kind = "none" =>
        \A n \in PayloadsOf(c) :
          \A f \in InjectedFks(n, calls[c].user) :
            IF UnsafeGiven(n)
            THEN ScalarShape(n, f, ProviderValue(f, calls[c].user))
            ELSE ConnectShape(n, f, ProviderValue(f, calls[c].user))

\* a post created without foreign keys received `author.connect.id`, and the
\* comment under it, created with `userId` set, received `orgId` as a scalar
C3_Witness ==
    \E c \in DOMAIN calls :
      /\ calls[c].pc = "done"
      /\ \E n \in PayloadsOf(c) :
           /\ n.model = "Post" /\ ~UnsafeGiven(n)
           /\ \E f \in InjectedFks(n, calls[c].user) : f.name = "authorId"
      /\ \E n \in PayloadsOf(c) :
           /\ n.model = "Comment" /\ UnsafeGiven(n)
           /\ \E f \in InjectedFks(n, calls[c].user) : f.name = "orgId"

(***************************************************************************)
(* C4.  Missing identity: a call made without an identity whose create     *)
(* payload omits fields that have a default provider fails with a          *)
(* validation error and nothing is injected anywhere.  The error names the *)
(* first field whose default is evaluated: the first omitted field in the  *)
(* order of declaration, or a sub-field that an embedded value declared    *)
(* before it leaves out.                                                   *)
(***************************************************************************)
FirstOmitted(n) ==
    CHOOSE f \in Omitted(n) :
      \A g \in Omitted(n) : FieldIndex(n.model, f.name) <= FieldIndex(n.model, g.name)

\* a type-def field declared before field f holds an object in the payload
EmbeddedBefore(n, f) ==
    \E i \in DOMAIN GetFields(n.model) :
      /\ i < FieldIndex(n.model, f.name)
      /\ GetFields(n.model)[i].isTypeDef
      /\ IsRef(GetOpt([x \in {1} |-> n.before], Ref(1), GetFields(n.model)[i].name))

\* the names of the sub-fields of the type-defs that are no type-defs themselves
SubFieldNames ==
    UNION {{TypeDefFields(t)[i].name :
              i \in {j \in DOMAIN TypeDefFields(t) : ~TypeDefFields(t)[j].isTypeDef}} :
           t \in TypeDefs}

NothingInjected(c) == TreeOf(heap, calls[c].newArgs) = calls[c].tree

InvokedInner(c) == \E i \in DOMAIN inner : inner[i].call = c

C5_NoPartialWrite ==
    \A c \in DOMAIN calls :
      /\ InvokedInner(c) => calls[c].err.kind = "none" /\ calls[c].agenda = <<>>
      /\ calls[c].err.kind # "none" => calls[c].pc = "failed" /\ ~InvokedInner(c)

\* a call that failed on a key the model does not have, after its payload
\* had received a default
C5_Witness ==
    \E c \in DOMAIN calls :
      /\ calls[c].pc = "failed" /\ calls[c].err.kind = "SchemaMismatchError"
      /\ ~NothingInjected(c)
      /\ ~InvokedInner(c)

(***************************************************************************)
(* C6.  Caller arguments are never mutated: at every point of a call, and  *)
(* after it returned or threw, the argument object the caller supplied is  *)
(* at every depth what it was when the call was made.                      *)
(***************************************************************************)
C6_CallerArgsUntouched ==
    \A c \in DOMAIN calls :
      calls[c].given => TreeOf(heap, calls[c].args) = calls[c].tree

\* a call that went through with defaults injected into a nested payload of
\* the returned arguments
C6_Witness ==
    \E c \in DOMAIN calls :
      /\ calls[c].pc = "done" /\ calls[c].given
      /\ Len(calls[c].nodes) > 1
      /\ \A i \in DOMAIN calls[c].nodes :
           TreeOf(heap, calls[c].nodes[i].v) # calls[c].nodes[i].tree
      /\ TreeOf(heap, calls[c].args) # TreeOf(heap, calls[c].newArgs)

(***************************************************************************)
(* C7.  Explicit value wins: every non-type-def field the caller's create  *)
(* payload sets, a key whose value is null or undefined included, holds    *)
(* the caller's value in the processed payload, and the default of a       *)
(* foreign key the caller set is applied to no relation field either.      *)
(***************************************************************************)
C7_ExplicitValueWins ==
    \A c \in DOMAIN calls :
      \A n \in PayloadsOf(c) :
        \A f \in PlainFields(n) :
          f.name \in DOMAIN n.before.kv =>
            /\ HasKey(heap, n.v, f.name)
            /\ heap[n.v.ref].kv[f.name] = n.before.kv[f.name]
            /\ ~f.isDataModel =>
                 TreeOf(heap, Get(heap, n.v, f.name)) = SubTree(n.tree, f.name)
            /\ f.isForeignKey /\ f.relationField \notin DOMAIN n.before.kv =>
                 f.relationField \notin DOMAIN heap[n.v.ref].kv

\* a post whose `org` key holds undefined and whose `authorId` is left out,
\* created by a user that has an org
C7_Witness ==
    \E c \in DOMAIN calls :
      /\ calls[c].pc = "done" /\ calls[c].user = Identity("u1", "o1")
      /\ \E n \in PayloadsOf(c) :
           /\ n.model = "Post"
           /\ "org" \in DOMAIN n.before.kv /\ n.before.kv["org"] = Undefined
           /\ "author" \in DOMAIN heap[n.v.ref].kv \ DOMAIN n.before.kv

(***************************************************************************)
(* C8.  Type-def recursion: in a call made with an identity, every object  *)
(* held by a type-def field of a create payload, alone or as an element of *)
(* an array, and every embedded object under it at any depth, holds        *)
(* provider(identity) for each sub-field with a provider that the caller   *)
(* left out, and the caller's value for each sub-field the caller set.     *)
(***************************************************************************)
IsScalarT(T) == IsLeafT(T) /\ LeafOf(T) \notin {"{}", "[]"}

\* reading key k of the object of tree T gives value val
ReadsAs(T, k, val) ==
    IF val = Undefined THEN k \notin TreeKeys(T) \/ SubTree(T, k) = Leaf(val.s)
    ELSE SubTree(T, k) = Leaf(val.s)

RECURSIVE EmbeddedOk(_, _, _, _), EmbeddedItemOk(_, _, _, _)
\* was: an embedded object as the caller gave it; now: as it was processed
EmbeddedItemOk(type, was, now, user) ==
    IF IsScalarT(was) THEN now = was
    ELSE \A i \in DOMAIN TypeDefFields(type) :
           LET f == TypeDefFields(type)[i] IN
           IF f.name \in TreeKeys(was)
           THEN IF f.isTypeDef
                THEN EmbeddedOk(f.type, SubTree(was, f.name), SubTree(now, f.name), user)
                ELSE SubTree(now, f.name) = SubTree(was, f.name)
           ELSE IF f.isTypeDef THEN f.name \notin TreeKeys(now)
           ELSE f.provider # "" => ReadsAs(now, f.name, ProviderValue(f, user))

\* was, now: the value of a type-def field, an object or an array of them
EmbeddedOk(type, was, now, user) ==
    IF IsScalarT(was) \/ was = EmptyArrayT THEN now = was
    ELSE IF IsArrayT(was)
    THEN /\ TreeKeys(now) = TreeKeys(was)
         /\ \A k \in TreeKeys(was) :
              EmbeddedItemOk(type, SubTree(was, k), SubTree(now, k), user)
    ELSE EmbeddedItemOk(type, was, now, user)

\* the type-def fields of a payload's model that the caller's payload sets
EmbeddedFields(n) ==
    {GetFields(n.model)[i] :
       i \in {j \in DOMAIN GetFields(n.model) :
                /\ GetFields(n.model)[j].isTypeDef
                /\ GetFields(n.model)[j].name \in DOMAIN n.before.kv}}

C8_TypeDefRecursion ==
    \A c \in DOMAIN calls :
      calls[c].user.present /\ calls[c].err.kind = "none" =>
        \A n \in PayloadsOf(c) :
          \A f \in EmbeddedFields(n) :
            EmbeddedOk(f.type, SubTree(n.tree, f.name),
                       TreeOf(heap, Get(heap, n.v, f.name)), calls[c].user)

\* a document whose `meta` is an array of two profiles, one of them with an
\* empty address: the address received `zone`, the profiles received `by`
C8_Witness ==
    \E c \in DOMAIN calls :
      /\ calls[c].pc = "done" /\ calls[c].user = Identity("u1", "o1")
      /\ \E n \in PayloadsOf(c) :
           /\ n.model = "Doc"
           /\ TreeKeys(SubTree(n.tree, "meta")) = {"0", "1"}
           /\ <<<<"meta", "1", "address">>, "{}">> \in n.tree
           /\ <<<<"meta", "1", "address", "zone">>, "o1">> \in TreeOf(heap, n.v)
           /\ <<<<"meta", "0", "by">>, "u1">> \in TreeOf(heap, n.v)
           /\ <<<<"meta", "1", "by">>, "u1">> \in TreeOf(heap, n.v)

(***************************************************************************)
(* C9.  Batch create: in a createMany or createManyAndReturn made with an  *)
(* identity, with `data` an array or one object, every element holds       *)
(* provider(identity) for each field with a provider it left out (a        *)
(* foreign key whose relation the element sets excepted), and its own      *)
(* value for each field it set.  The code breaks it for an element of a    *)
(* model whose relation is backed by two defaulted foreign keys.           *)
(***************************************************************************)
C9_BatchCreate ==
    \A c \in DOMAIN calls :
      /\ calls[c].action \in {"createMany", "createManyAndReturn"}
      /\ Succeeded(c) /\ calls[c].user.present
      => \A n \in PayloadsOf(c) :
           /\ \A f \in Omitted(n) :
                RelationGiven(n, f) \/ HoldsDefault(n, f, ProviderValue(f, calls[c].user))
           /\ \A f \in PlainFields(n) :
                f.name \in DOMAIN n.before.kv =>
                  heap[n.v.ref].kv[f.name] = n.before.kv[f.name]

(***************************************************************************)
(* C10.  Pass-through: when the action carries no write payload, or the    *)
(* call has no arguments, preprocessArgs returns the very arguments it was *)
(* given, unchanged, and hands no payload to processCreatePayload.         *)
(***************************************************************************)
C10_PassThrough ==
    \A c \in DOMAIN calls :
      /\ calls[c].pc # "idle"
      /\ calls[c].action \notin ACTIONS_WITH_WRITE_PAYLOAD \/ ~calls[c].given
      => /\ calls[c].newArgs = calls[c].args
         /\ calls[c].given => TreeOf(heap, calls[c].newArgs) = calls[c].tree
         /\ calls[c].nodes = <<>>
         /\ Succeeded(c)
         /\ \A i \in DOMAIN inner : inner[i].call = c => inner[i].args = calls[c].args

\* a delete with a `where` went through to the wrapped client
C10_Witness ==
    \E c \in DOMAIN calls :
      /\ calls[c].pc = "done" /\ calls[c].action = "delete" /\ calls[c].given
      /\ IsRef(calls[c].args)
      /\ \E i \in DOMAIN inner : inner[i].call = c /\ inner[i].args = calls[c].args

(***************************************************************************)
(* C11.  Calls in progress at the same time do not interfere: whatever the *)
(* interleaving of the callbacks of two calls, also of two calls given the *)
(* same argument object, each call ends with the processed arguments and   *)
(* the error it would end with alone; the objects a call rewrites are      *)
(* reached from its own processed arguments only, never from another       *)
(* call's arguments; and the identity a handler was constructed with is    *)
(* the same before and after every step of its call.                       *)
(***************************************************************************)
\* call c is over, with arguments to forward or with an error
Over(c) == calls[c].pc \in {"ready", "done", "failed"}

\* call c carries a write payload
Rewrites(c) ==
    calls[c].pc # "idle" /\ calls[c].given /\ calls[c].action \in ACTIONS_WITH_WRITE_PAYLOAD

AsAlone(c) ==
    LET a == Alone(calls[c].action, calls[c].model, calls[c].user, calls[c].given, calls[c].tree)
    IN TreeOf(heap, calls[c].newArgs) = a.tree /\ calls[c].err = a.err

OwnObjects(c) ==
    \A d \in DOMAIN calls \ {c} :
      calls[d].pc # "idle" =>
        Reach(heap, calls[c].newArgs)
          \cap (Reach(heap, calls[d].newArgs) \cup Reach(heap, calls[d].args)) = {}

C11_Isolated ==
    \A c \in DOMAIN calls :
      /\ Over(c) => AsAlone(c)
      /\ Rewrites(c) => OwnObjects(c)

C11_SameHandler ==
    [][\A c \in DOMAIN calls : calls[c].pc # "idle" => calls'[c].user = calls[c].user]_vars

C11_NoInterference == []C11_Isolated /\ C11_SameHandler

\* the objects a callback of call c allocated
Allocated(c) == {a \in Reach(heap, calls[c].newArgs) : a > calls[c].newArgs.ref}

\* two creates given the same argument object, both over: a callback of the
\* second ran between two callbacks of the first, each injecting a connect
C11_Witness ==
    /\ calls["c1"].pc = "done" /\ calls["c2"].pc = "done"
    /\ calls["c1"].args = calls["c2"].args
    /\ calls["c1"].action = "create"
    /\ Len(calls["c1"].nodes) > 1 /\ Len(calls["c2"].nodes) > 1
    /\ \E a1 \in Allocated("c1"), b \in Allocated("c2"), a2 \in Allocated("c1") :
         a1 < b /\ b < a2

(***************************************************************************)
(* C12.  A change of identity does not affect a call in progress: a call   *)
(* ends with the arguments and the error it ends with when made alone with *)
(* the identity of the client it was made through, whatever clients        *)
(* setAuth creates before it is over; and a step of setAuth changes        *)
(* nothing of a call: not where it stands, not its arguments.              *)
(***************************************************************************)
\* the identity of the client each call was made through, and no other
C12_OwnIdentity == \A c \in DOMAIN calls : Over(c) => AsAlone(c)

C12_CallsUntouched == [][ctx' # ctx => calls' = calls /\ heap' = heap]_vars

\* a call keeps the identity of its client
C12_ClientIdentity ==
    [][\A c \in DOMAIN calls :
         /\ calls[c].pc = "idle" /\ calls'[c].pc # "idle" => calls'[c].user = ctx
         /\ calls[c].pc # "idle" => calls'[c].user = calls[c].user]_vars

C12_IdentityChange == []C12_OwnIdentity /\ C12_CallsUntouched /\ C12_ClientIdentity

\* a call made by a user with an org is between two callbacks, a comment next,
\* and the client has been replaced by an anonymous one
C12_Witness ==
    /\ calls["c1"].pc = "visiting" /\ calls["c1"].user = Identity("u1", "o1")
    /\ ctx = Anonymous
    /\ Len(calls["c1"].nodes) > 0
    /\ Head(calls["c1"].agenda).model = "Comment"
    /\ Head(calls["c1"].agenda).kind = "create"

(***************************************************************************)
(* C16.  Visitor enumeration: the payloads handed to processCreatePayload  *)
(* in a call are the create-role payloads of the caller's argument tree    *)
(* (top-level create data, nested `create`, the create branch of an        *)
(* upsert, each createMany element), each once, a payload before the       *)
(* payloads nested in its relation fields and those in the order of the    *)
(* document; a call that fails has gone through a prefix of them.  A       *)
(* payload is handed over only after the callbacks before it returned.     *)
(***************************************************************************)
\* the value under key k of a tree, undefined when there is no such key
ValueT(T, k) == IF k \in TreeKeys(T) THEN SubTree(T, k) ELSE Leaf("undefined")

FalsyT(T) == T = Leaf("undefined") \/ T = Leaf("null")

\* enumerate(T) on trees
ItemsT(T) ==
    IF FalsyT(T) THEN <<>>
    ELSE IF IsArrayT(T)
    THEN [i \in 1..Cardinality(TreeKeys(T)) |-> SubTree(T, IdxKeys[i])]
    ELSE <<T>>

Payload(role, model, T) == [role |-> role, model |-> model, tree |-> T]

RECURSIVE PayloadsIn(_, _, _, _), NestedIn(_, _)
\* the create-role payloads under the payload(s) T of a model, in pre-order
NestedIn(model, T) ==
    LET fs == GetFields(model)
        under(item, i, j) ==
            IF fs[i].isDataModel /\ NestedActions[j] \in TreeKeys(SubTree(item, fs[i].name))
            THEN PayloadsIn(fs[i].type, NestedActions[j],
                            SubTree(SubTree(item, fs[i].name), NestedActions[j]), FALSE)
            ELSE <<>>
        ofField(item, i) == Flatten([j \in DOMAIN NestedActions |-> under(item, i, j)])
        ofItem(item) == Flatten([i \in DOMAIN fs |-> ofField(item, i)])
    IN Flatten([x \in DOMAIN ItemsT(T) |-> ofItem(ItemsT(T)[x])])

\* the create-role payloads of the arguments T of an action on a model
PayloadsIn(model, action, T, top) ==
    LET items == ItemsT(T)
        one(item) ==
            CASE action = "create" ->
                   <<Payload("create", model, item)>> \o NestedIn(model, item)
              [] action = "upsert" ->
                   <<Payload("upsert", model, ValueT(item, "create"))>>
                     \o NestedIn(model, ValueT(item, "create"))
                     \o NestedIn(model, ValueT(item, "update"))
              [] action = "update" ->
                   NestedIn(model, IF top \/ ~IsScalarT(ValueT(item, "data"))
                                   THEN ValueT(item, "data") ELSE item)
              [] action = "connectOrCreate" -> NestedIn(model, ValueT(item, "create"))
              [] OTHER -> <<>>
    IN IF action \in {"createMany", "createManyAndReturn"}
       THEN IF FalsyT(T) THEN <<>>
            ELSE [i \in DOMAIN ItemsT(ValueT(T, "data")) |->
                    Payload("createMany", model, ItemsT(ValueT(T, "data"))[i])]
                   \o NestedIn(model, ValueT(T, "data"))
       ELSE Flatten([i \in DOMAIN items |-> one(items[i])])

\* the create-role payloads of a call, from the tree the caller passed
Expected(c) ==
    IF ~calls[c].given \/ calls[c].action \notin ACTIONS_WITH_WRITE_PAYLOAD THEN <<>>
    ELSE IF calls[c].action = "create"
    THEN PayloadsIn(calls[c].model, "create", ValueT(calls[c].tree, "data"), TRUE)
    ELSE PayloadsIn(calls[c].model, calls[c].action, calls[c].tree, TRUE)

\* the payloads handed over so far
Seen(c) ==
    [i \in DOMAIN calls[c].nodes |->
       Payload(calls[c].nodes[i].role, calls[c].nodes[i].model, calls[c].nodes[i].tree)]

C16_VisitorEnumeration ==
    \A c \in DOMAIN calls :
      calls[c].pc # "idle" =>
        /\ Len(Seen(c)) <= Len(Expected(c))
        /\ Seen(c) = SubSeq(Expected(c), 1, Len(Seen(c)))
        /\ Succeeded(c) => Seen(c) = Expected(c)
        /\ \A i, j \in DOMAIN calls[c].nodes :
             /\ i < j => calls[c].nodes[i].cb <= calls[c].nodes[j].cb
             /\ i # j /\ IsRef(calls[c].nodes[i].v) => calls[c].nodes[i].v # calls[c].nodes[j].v

\* a post with a list of two comments to create went through: the post first,
\* then the comments in their order
C16_Witness ==
    \E c \in DOMAIN calls :
      /\ calls[c].pc = "done" /\ calls[c].action = "create"
      /\ Len(calls[c].nodes) = 3
      /\ calls[c].nodes[1].model = "Post"
      /\ calls[c].nodes[2].model = "Comment" /\ calls[c].nodes[3].model = "Comment"
      /\ calls[c].nodes[2].tree # calls[c].nodes[3].tree
      /\ calls[c].nodes[2].tree =
           SubTree(SubTree(SubTree(SubTree(calls[c].tree, "data"), "comments"), "create"), "0")

(***************************************************************************)
(* C17.  Composite foreign keys: when a relation is backed by two or more  *)
(* foreign keys that each have a provider, the caller's payload sets none  *)
(* of them nor the relation field, and the payload is not an unsafe        *)
(* mutate, the processed payload holds under <relation>.connect the        *)
(* opposite key of every one of them with the provider's value.  The code  *)
(* breaks it: only the first of them gets there.                           *)
(***************************************************************************)
\* the foreign keys with a provider that back a relation field of a model
BackingFks(model, rel) ==
    {f \in {GetFields(model)[i] : i \in DOMAIN GetFields(model)} :
       f.isForeignKey /\ f.relationField = rel /\ f.provider # ""}

\* the relation fields backed by two or more of them
CompositeRelations(model) ==
    {g.name : g \in {f \in {GetFields(model)[i] : i \in DOMAIN GetFields(model)} :
                       f.isDataModel /\ Cardinality(BackingFks(model, f.name)) >= 2}}

C17_CompositeConnect ==
    \A c \in DOMAIN calls :
      Succeeded(c) /\ calls[c].user.present =>
        \A n \in PayloadsOf(c) :
          \A rel \in CompositeRelations(n.model) :
            (/\ rel \notin DOMAIN n.before.kv
             /\ ~UnsafeGiven(n)
             /\ \A f \in BackingFks(n.model, rel) : ProviderValue(f, calls[c].user) # Undefined)
            => \A f \in BackingFks(n.model, rel) :
                 ConnectShape(n, f, ProviderValue(f, calls[c].user))

(***************************************************************************)
(* C18.  Upsert: the processed arguments of an upsert, top-level or nested *)
(* in a relation field, have the caller's keys and the caller's `where`;   *)
(* the `update` branch keeps everything the caller supplied and differs    *)
(* from the caller's only inside the create payloads nested in it, which   *)
(* receive the defaults of their own model.  As stated, with an `update`   *)
(* branch equal to the caller's, it fails for those nested creates.        *)
(***************************************************************************)
\* the part of a tree under a path
AtPath(T, p) ==
    {<<SubSeq(e[1], Len(p) + 1, Len(e[1])), e[2]>> :
       e \in {x \in T : Len(x[1]) >= Len(p) /\ SubSeq(x[1], 1, Len(p)) = p}}

\* the paths of a tree that end in a key
PathsTo(T, k) ==
    {p \in UNION {{SubSeq(e[1], 1, i) : i \in 1..Len(e[1])} : e \in T} : p[Len(p)] = k}

\* the upsert objects of the arguments of a call, by their paths
UpsertPaths(c) ==
    LET T == calls[c].tree
        under == PathsTo(T, "upsert")
        single == {p \in under : ~IsArrayT(AtPath(T, p))}
        listed == UNION {{p \o <<k>> : k \in TreeKeys(AtPath(T, p))} :
                           p \in {q \in under : IsArrayT(AtPath(T, q))}}
    IN single \cup listed
         \cup (IF calls[c].given /\ calls[c].action = "upsert" THEN {<<>>} ELSE {})

\* a pair of a tree lies in a create payload nested in it
InNestedCreate(e) == \E i \in 1..Len(e[1]) : e[1][i] \in CreateKeys

C18_UpsertFrame ==
    \A c \in DOMAIN calls :
      calls[c].pc # "idle" =>
        \A p \in UpsertPaths(c) :
          LET now == AtPath(TreeOf(heap, calls[c].newArgs), p)
              was == AtPath(calls[c].tree, p)
          IN /\ TreeKeys(now) = TreeKeys(was)
             /\ SubTree(now, "where") = SubTree(was, "where")
             /\ Values(SubTree(was, "update")) \subseteq SubTree(now, "update")
             /\ \A e \in SubTree(now, "update") \ SubTree(was, "update") : InNestedCreate(e)
             /\ \A e \in SubTree(was, "update") \ SubTree(now, "update") : InNestedCreate(e)

\* C18 as stated: the update branch equals the one the caller supplied
C18_UpdateBranchEqual ==
    \A c \in DOMAIN calls :
      calls[c].pc # "idle" =>
        \A p \in UpsertPaths(c) :
          LET now == AtPath(TreeOf(heap, calls[c].newArgs), p)
              was == AtPath(calls[c].tree, p)
          IN /\ SubTree(now, "where") = SubTree(was, "where")
             /\ SubTree(now, "update") = SubTree(was, "update")

\* an upsert of a post went through: its create branch received `org`, and
\* the comment created under its update branch received `member`
C18_Witness ==
    \E c \in DOMAIN calls :
      /\ calls[c].pc = "done" /\ calls[c].action = "upsert" /\ calls[c].model = "Post"
      /\ LET now == TreeOf(heap, calls[c].newArgs)
             was == calls[c].tree
         IN /\ "org" \in TreeKeys(SubTree(now, "create")) \ TreeKeys(SubTree(was, "create"))
            /\ "text" \in TreeKeys(SubTree(SubTree(SubTree(was, "update"), "comments"), "create"))
            /\ "member" \in TreeKeys(SubTree(SubTree(SubTree(now, "update"), "comments"), "create"))
            /\ SubTree(now, "where") = SubTree(was, "where")

(***************************************************************************)
(* C19.  Inconsistent metadata: when the default of a foreign key has to   *)
(* become a connect (a value from the provider, the payload sets neither   *)
(* the field nor its relation and is no unsafe mutate) and the metadata    *)
(* does not resolve, the call fails and is not forwarded.  With no         *)
(* relationField, or no entry of the foreignKeyMapping mapped to the       *)
(* field, the error is an Error naming the foreign key; with a             *)
(* relationField that is no field of the model it is the NotFoundError of  *)
(* requireField, which was given the name of the relation field, not the   *)
(* foreign key.  As stated, with the foreign key identified in all three   *)
(* cases, it fails for the last.                                           *)
(***************************************************************************)
NoRelationField(n, f) == f.relationField = ""

RelationFieldAbsent(n, f) == f.relationField # "" /\ ~HasField(n.model, f.relationField)

NoMappingEntry(n, f) ==
    /\ f.relationField # "" /\ HasField(n.model, f.relationField)
    /\ KeysMappedTo(n, f) = {}

\* the foreign keys of a payload whose default has to become a connect and
\* whose metadata does not resolve
Unresolved(n, user) ==
    {f \in Omitted(n) :
       /\ f.isForeignKey /\ ProviderValue(f, user) # Undefined
       /\ ~RelationGiven(n, f) /\ ~UnsafeGiven(n)
       /\ NoRelationField(n, f) \/ RelationFieldAbsent(n, f) \/ NoMappingEntry(n, f)}

\* the error the handler throws for such a field
ConfigurationError(n, f) ==
    IF RelationFieldAbsent(n, f) THEN Error("NotFoundError", f.relationField)
    ELSE Error("Error", f.name)

C19_InconsistentMetadata ==
    \A c \in DOMAIN calls :
      calls[c].user.present =>
        \A n \in PayloadsOf(c) :
          Unresolved(n, calls[c].user) # {} =>
            /\ calls[c].pc = "failed" /\ ~InvokedInner(c)
            /\ \E f \in Unresolved(n, calls[c].user) : calls[c].err = ConfigurationError(n, f)

\* C19 as stated: the error identifies the foreign key
C19_NamesTheForeignKey ==
    \A c \in DOMAIN calls :
      calls[c].user.present =>
        \A n \in PayloadsOf(c) :
          Unresolved(n, calls[c].user) # {} =>
            /\ calls[c].pc = "failed" /\ ~InvokedInner(c)
            /\ \E f \in Unresolved(n, calls[c].user) : calls[c].err.field = f.name

\* a create whose foreign key names a relation field the model does not
\* have failed in requireField, and was not forwarded
C19_Witness ==
    \E c \in DOMAIN calls :
      /\ calls[c].pc = "failed" /\ calls[c].user.present /\ ~InvokedInner(c)
      /\ calls[c].err = Error("NotFoundError", "ghost")
      /\ \E n \in PayloadsOf(c) :
           /\ n.model = "Ghost"
           /\ \E f \in Unresolved(n, calls[c].user) : RelationFieldAbsent(n, f) /\ f.name = "gid"

(***************************************************************************)
(* C20.  Undefined default: a field whose provider gives undefined for the *)
(* identity of the call, and that the caller left out, gets no key in the  *)
(* processed payload: not the field itself and, for a foreign key whose    *)
(* relation the caller left out too, not its opposite key under the        *)
(* relation's connect; a sub-field of an embedded object likewise.         *)
(***************************************************************************)
\* the omitted fields of a payload whose provider gives undefined
Undefaulted(n, user) == {f \in Omitted(n) : ProviderValue(f, user) = Undefined}

\* the keys of `data.<relation>.connect` of a processed payload
ConnectKeys(n, rel) == TreeKeys(SubTree(SubTree(TreeOf(heap, n.v), rel), "connect"))

RECURSIVE NoUndefinedKeys(_, _, _, _)
\* was: the value of a type-def field as the caller gave it; now: processed
NoUndefinedKeys(type, was, now, user) ==
    IF IsScalarT(was) \/ was = EmptyArrayT THEN TRUE
    ELSE IF IsArrayT(was)
    THEN \A k \in TreeKeys(was) :
           IsArrayT(SubTree(was, k))
             \/ NoUndefinedKeys(type, SubTree(was, k), SubTree(now, k), user)
    ELSE \A i \in DOMAIN TypeDefFields(type) :
           LET f == TypeDefFields(type)[i] IN
           IF f.isTypeDef
           THEN f.name \in TreeKeys(was) =>
                  NoUndefinedKeys(f.type, SubTree(was, f.name), SubTree(now, f.name), user)
           ELSE f.name \notin TreeKeys(was) /\ ProviderValue(f, user) = Undefined =>
                  f.name \notin TreeKeys(now)

C20_UndefinedDefault ==
    \A c \in DOMAIN calls :
      calls[c].user.present =>
        \A n \in PayloadsOf(c) :
          /\ \A f \in Undefaulted(n, calls[c].user) :
               /\ f.name \notin DOMAIN heap[n.v.ref].kv
               /\ f.isForeignKey /\ ~RelationGiven(n, f) =>
                    KeysMappedTo(n, f) \cap ConnectKeys(n, f.relationField) = {}
          /\ \A f \in EmbeddedFields(n) :
               NoUndefinedKeys(f.type, SubTree(n.tree, f.name),
                               TreeOf(heap, Get(heap, n.v, f.name)), calls[c].user)

\* a comment created by an identity without `org`: `member.connect` received
\* `id` for userId and nothing for orgId
C20_Witness ==
    \E c \in DOMAIN calls :
      /\ calls[c].pc = "done" /\ calls[c].user = Identity("u1", "undefined")
      /\ \E n \in PayloadsOf(c) :
           /\ n.model = "Comment"
           /\ {f.name : f \in Undefaulted(n, calls[c].user)} = {"orgId"}
           /\ "userId" \notin DOMAIN n.before.kv /\ "member" \notin DOMAIN n.before.kv
           /\ ConnectKeys(n, "member") = {"id"}
           /\ DOMAIN heap[n.v.ref].kv = DOMAIN n.before.kv \cup {"member"}

(***************************************************************************)
(* What the properties of the encrypted client speak of.                   *)
(***************************************************************************)
IsWrite(out) == out.op \in {"create", "createMany", "createManyAndReturn", "update", "upsert"}

\* the layers a call went through, in order
LayersOf(out) == [i \in DOMAIN out.trace |-> out.trace[i].layer]

\* the call was made on a client with policy
WithPolicy(out) == \E i \in DOMAIN out.trace : out.trace[i].layer = "policy"

\* the keys a client decrypts with
KeySet(out) == {out.keys[i] : i \in DOMAIN out.keys}

(***************************************************************************)
(* C13.  Write-path layer order: on a client with policy and encryption, a *)
(* write is checked by policy as the caller gave it.  A write with a value *)
(* longer than MaxLength is rejected by policy: it reaches neither the     *)
(* encryption layer nor the raw client, and no row changes.  A write whose *)
(* values satisfy the rule goes on to encryption and to the raw client,    *)
(* which receives a ciphertext longer than the plaintext, and longer than  *)
(* MaxLength for a plaintext of MaxLength characters.                      *)
(***************************************************************************)
C13_PolicySeesPlaintext ==
    IsWrite(db.out) /\ WithPolicy(db.out) =>
      /\ db.out.trace[1] = Saw("policy", db.out.given)
      /\ IF \E i \in DOMAIN db.out.given : Len(db.out.given[i].value) > MaxLength
         THEN db.out.rejected /\ LayersOf(db.out) = <<"policy">>
         ELSE /\ ~db.out.rejected
              /\ LayersOf(db.out) = <<"policy", "encryption", "raw">>
              /\ db.out.trace[2].items = db.out.given
              /\ \A i \in DOMAIN db.out.given :
                   db.out.given[i].value # <<>> =>
                     /\ Len(db.out.trace[3].items[i].value) > Len(db.out.given[i].value)
                     /\ Len(db.out.given[i].value) = MaxLength =>
                          Len(db.out.trace[3].items[i].value) > MaxLength

C13_RejectedNotStored ==
    [][db'.out.rejected => db'.rows = db.rows /\ db'.written = db.written]_vars

C13_LayerOrder == []C13_PolicySeesPlaintext /\ C13_RejectedNotStored

\* a create of MaxLength + 1 characters was rejected by policy, after one of
\* MaxLength characters was stored through the same client (the one with
\* policy encrypts with key 1) as a longer ciphertext
C13_Witness ==
    /\ db.out.op = "create" /\ db.out.rejected
    /\ db.out.given = <<Item(Text(MaxLength + 1), <<>>)>>
    /\ LayersOf(db.out) = <<"policy">>
    /\ \E id \in DOMAIN db.rows :
         /\ db.written[id].key = 1
         /\ db.written[id].item.value = Text(MaxLength)
         /\ Len(db.rows[id].value) > MaxLength

(***************************************************************************)
(* C14.  Encryption round-trip: a write through an enhanced client returns *)
(* the rows as the caller wrote them (create, update, either branch of     *)
(* upsert, createManyAndReturn), the posts created with them included; a   *)
(* later read through a client that encrypts with the same key returns     *)
(* what was written; the raw client stores, and returns, for every         *)
(* non-empty string something else than the string.                        *)
(***************************************************************************)
C14_WriteReturnsPlaintext ==
    IsWrite(db.out) /\ ~db.out.rejected /\ db.out.op # "createMany" =>
      /\ Len(db.out.result) = Len(db.out.ids)
      /\ \A i \in DOMAIN db.out.ids : db.out.result[i] = db.out.given[db.out.applied[i]]

C14_StoredDiffers ==
    \A id \in DOMAIN db.rows :
      /\ db.written[id].item.value # <<>> => db.rows[id].value # db.written[id].item.value
      /\ \A j \in DOMAIN db.written[id].item.posts :
           db.written[id].item.posts[j] # <<>> =>
             db.rows[id].posts[j] # db.written[id].item.posts[j]

C14_ReadReturnsPlaintext ==
    db.out.op = "read" =>
      LET id == db.out.ids[1] IN
      /\ db.written[id].key \in {0, db.out.keys[1]} =>
           db.out.result[1].value = db.written[id].item.value
      /\ \A j \in DOMAIN db.written[id].item.posts :
           db.written[id].postKeys[j] \in {0, db.out.keys[1]} =>
             db.out.result[1].posts[j] = db.written[id].item.posts[j]

C14_RawReturnsStored ==
    db.out.op = "raw" =>
      /\ db.out.result[1] = db.rows[db.out.ids[1]]
      /\ db.written[db.out.ids[1]].item.value # <<>> =>
           db.out.result[1].value # db.written[db.out.ids[1]].item.value

C14_RoundTrip ==
    /\ C14_WriteReturnsPlaintext
    /\ C14_StoredDiffers
    /\ C14_ReadReturnsPlaintext
    /\ C14_RawReturnsStored

\* a user created with a post was read back, post included, through a
\* client with the key both were written with, while the stored row holds
\* neither the value nor the title
C14_Witness ==
    /\ db.out.op = "read"
    /\ LET id == db.out.ids[1] IN
       /\ Len(db.written[id].item.posts) = 1
       /\ db.written[id].key = db.out.keys[1]
       /\ db.written[id].postKeys[1] = db.out.keys[1]
       /\ db.out.result[1] = db.written[id].item
       /\ db.rows[id].value # db.written[id].item.value
       /\ db.rows[id].posts[1] # db.written[id].item.posts[1]

(***************************************************************************)
(* C15.  Decryption keys: a read never fails.  A stored value encrypted    *)
(* with key K is returned as the plaintext when K is the client's          *)
(* encryption key or one of its decryption keys, whatever else the list    *)
(* holds; when K is none of them the read returns what is stored, which is *)
(* not empty and not the plaintext.                                        *)
(***************************************************************************)
\* the value read, next to what was written, what is stored, and the key
ReadsRight(keys, key, read, plain, stored) ==
    key # 0 =>
      IF key \in keys THEN read = plain
      ELSE read = stored /\ read # <<>> /\ read # plain

C15_KeySelection ==
    db.out.op = "read" =>
      LET id == db.out.ids[1] IN
      /\ ~db.out.rejected /\ Len(db.out.result) = 1
      /\ ReadsRight(KeySet(db.out), db.written[id].key, db.out.result[1].value,
                    db.written[id].item.value, db.rows[id].value)
      /\ \A j \in DOMAIN db.written[id].item.posts :
           ReadsRight(KeySet(db.out), db.written[id].postKeys[j], db.out.result[1].posts[j],
                      db.written[id].item.posts[j], db.rows[id].posts[j])

\* a read with decryption keys 2 and another, next to encryption key 1, of a
\* user whose value was written with key 2 and whose post with key 1: both
\* come back as written; and the same row holds what a client with the
\* other key alone would get
C15_Witness ==
    /\ db.out.op = "read" /\ db.out.keys = <<1, 2, OtherKey>>
    /\ LET id == db.out.ids[1] IN
       /\ db.written[id].key = 2
       /\ Len(db.written[id].item.posts) = 1 /\ db.written[id].postKeys[1] = 1
       /\ db.out.result[1] = db.written[id].item
       /\ DecryptItem(<<OtherKey>>, db.rows[id]) = db.rows[id]

(***************************************************************************)
(* C21.  No identity needed without providers: a call made without an      *)
(* identity whose payloads are of models that have no field with a         *)
(* provider, in the model or in the type-defs it embeds, does not fail     *)
(* with a validation error.  The code breaks it for an embedded object     *)
(* that leaves out a sub-field: getDefaultValue is called for it, and      *)
(* throws, before the provider is looked at.                               *)
(***************************************************************************)
RECURSIVE TypeDefProviderFree(_)
TypeDefProviderFree(type) ==
    \A i \in DOMAIN TypeDefFields(type) :
      IF TypeDefFields(type)[i].isTypeDef
      THEN TypeDefProviderFree(TypeDefFields(type)[i].type)
      ELSE TypeDefFields(type)[i].provider = ""

\* no field the handler goes through for a payload of the model has a provider
ProviderFree(model) ==
    \A i \in DOMAIN GetFields(model) :
      IF GetFields(model)[i].isTypeDef
      THEN TypeDefProviderFree(GetFields(model)[i].type)
      ELSE GetFields(model)[i].provider = ""

C21_NoProviderNoIdentity ==
    \A c \in DOMAIN calls :
      (/\ calls[c].pc # "idle" /\ ~calls[c].user.present
       /\ \A n \in NodesOf(c) : ProviderFree(n.model))
      => calls[c].err.kind # "ValidationError"

(***************************************************************************)
(* C22.  Idempotence of preprocessing: when the preprocessing of a write   *)
(* call succeeded, preprocessing what it returned, for the same action,    *)
(* model and identity, succeeds and returns a tree equal to it.            *)
(***************************************************************************)
\* what preprocessing returned for a call
Processed(c) == TreeOf(heap, calls[c].newArgs)

\* r: preprocessing applied to what was returned for call c
SameAgain(c, r) == r.err = NoError /\ r.tree = Processed(c)

C22_Idempotent ==
    \A c \in DOMAIN calls :
      Succeeded(c) /\ Rewrites(c) =>
        SameAgain(c, Alone(calls[c].action, calls[c].model, calls[c].user, TRUE, Processed(c)))

\* a post created with comments under it, by an identity: the post and the
\* comments received defaults, and a second pass adds nothing
C22_Witness ==
    \E c \in DOMAIN calls :
      /\ calls[c].pc = "done" /\ calls[c].action = "create" /\ calls[c].model = "Post"
      /\ calls[c].user = Identity("u1", "o1")
      /\ Len(calls[c].nodes) >= 2
      /\ \A i \in DOMAIN calls[c].nodes :
           DOMAIN heap[calls[c].nodes[i].v.ref].kv # DOMAIN calls[c].nodes[i].before.kv
      /\ SameAgain(c, Alone("create", "Post", calls[c].user, TRUE, Processed(c)))

(***************************************************************************)
(* C23.  Consistent foreign key style: a create payload in which the       *)
(* caller set no foreign key holds no foreign key after processing (the    *)
(* defaults of foreign keys are in connects); a create payload in which    *)
(* the caller set a foreign key has after processing the relation keys it  *)
(* had (the defaults of foreign keys are scalars).                         *)
(***************************************************************************)
\* the keys of a payload that are foreign keys of its model
ForeignKeysIn(model, keys) ==
    {k \in keys : HasField(model, k) /\ FieldOf(model, k).isForeignKey}

\* the keys of a payload that are relation fields of its model
RelationsIn(model, keys) ==
    {k \in keys : HasField(model, k) /\ FieldOf(model, k).isDataModel}

PathsOf(T) == UNION {{SubSeq(e[1], 1, i) : i \in 0..Len(e[1])} : e \in T}

\* the keys under which nothing is created
ReferenceKeys == {"connect", "delete", "where", "select", "include"}

\* the places of the arguments of a call that hold update data
UpdatePaths(c) ==
    {p \in PathsOf(calls[c].tree) : p # <<>> /\ p[Len(p)] = "update"}
      \cup (IF calls[c].action \in {"update", "updateMany"} THEN {<<"data">>} ELSE {})

NothingCreatedIn(T) == \A e \in T : ~InNestedCreate(e)

C24_OnlyAdds ==
    \A c \in DOMAIN calls :
      Succeeded(c) /\ calls[c].given =>
        /\ Values(calls[c].tree) \subseteq Processed(c)
        /\ PathsOf(calls[c].tree) \subseteq PathsOf(Processed(c))
        /\ \A p \in PathsOf(calls[c].tree) :
             p # <<>> /\ p[Len(p)] \in ReferenceKeys =>
               AtPath(Processed(c), p) = AtPath(calls[c].tree, p)
        /\ \A p \in UpdatePaths(c) :
             NothingCreatedIn(AtPath(calls[c].tree, p)) =>
               AtPath(Processed(c), p) = AtPath(calls[c].tree, p)

\* an upsert of a post by an identity: the create branch received defaults,
\* the update branch, which deletes a comment, and `where` are the caller's
C24_Witness ==
    \E c \in DOMAIN calls :
      /\ calls[c].pc = "done" /\ calls[c].action = "upsert" /\ calls[c].model = "Post"
      /\ calls[c].user.present
      /\ <<"update", "comments", "delete">> \in PathsOf(calls[c].tree)
      /\ Processed(c) # calls[c].tree
      /\ Values(calls[c].tree) \subseteq Processed(c)
      /\ AtPath(Processed(c), <<"update">>) = AtPath(calls[c].tree, <<"update">>)
      /\ AtPath(Processed(c), <<"where">>) = AtPath(calls[c].tree, <<"where">>)

(***************************************************************************)
(* The REPL session.  The closure of `repl` holds the variables debug,     *)
(* table, prisma, db and user; the REPL server holds a context (the        *)
(* globals of the evaluated lines) and a prompt.  Client objects are told  *)
(* apart by the order they were made in.                                   *)
(***************************************************************************)
MaxClients == 7

\* a JavaScript value: what typeof gives for it, whether it is truthy,
\* its `id` property ("" when it has none) and how inspect prints it
JsValue(typeof, truthy, id, text) ==
    [typeof |-> typeof, truthy |-> truthy, id |-> id, text |-> text]

JsUndefined == JsValue("undefined", FALSE, "", "undefined")

Gives(v) == [throws |-> FALSE, value |-> v]

Throws == [throws |-> TRUE, value |-> JsUndefined]

\* the expressions typed in the session, and what eval makes of them
Expressions ==
    {"{ id: 1 }", "{ name: 'a' }", "[]", "null", "0", "7", "'a'", "undefined",
     "() => 1", "nobody.id", "{ id: "}

Eval(text) ==
    CASE text = "{ id: 1 }"     -> Gives(JsValue("object", TRUE, "1", text))
      [] text = "{ name: 'a' }" -> Gives(JsValue("object", TRUE, "", text))
      [] text = "[]"            -> Gives(JsValue("object", TRUE, "", text))
      [] text = "null"          -> Gives(JsValue("object", FALSE, "", text))
      [] text = "0"             -> Gives(JsValue("number", FALSE, "", text))
      [] text = "7"             -> Gives(JsValue("number", TRUE, "", text))
      [] text = "'a'"           -> Gives(JsValue("string", TRUE, "", text))
      [] text = "undefined"     -> Gives(JsUndefined)
      [] text = "() => 1"       -> Gives(JsValue("function", TRUE, "", text))
      [] OTHER                  -> Throws

Trim(value) == IF value \in {"", " ", "  "} THEN "" ELSE value

\* no raw client, no enhanced client: the variables before createClient ran
NoClient == [id |-> 0, log |-> <<>>]

NoEnhanced == [id |-> 0, prisma |-> 0, user |-> JsUndefined, logPrismaQuery |-> FALSE]

PrismaClient(id, debug) == [id |-> id, log |-> IF debug THEN <<"info">> ELSE <<>>]

Enhance(id, prisma, user, logPrismaQuery) ==
    [id |-> id, prisma |-> prisma.id, user |-> user, logPrismaQuery |-> logPrismaQuery]

UserInfo(user) ==
    IF ~user.truthy THEN <<"anonymous">>
    ELSE IF user.id # "" THEN <<"user#", user.id>>
    ELSE <<user.text>>

SetPrompt(r) == [r EXCEPT !.prompt = [debug |-> r.debug, userInfo |-> UserInfo(r.user)]]

CreateClient_KeepEnhanced(r) ==
    [r EXCEPT !.disconnected = IF r.prisma # NoClient THEN @ \cup {r.prisma.id} ELSE @,
              !.prisma = PrismaClient(r.made + 1, r.debug),
              !.context.prisma = PrismaClient(r.made + 1, r.debug),
              !.made = @ + 2]

CreateClient(r) ==
    [r EXCEPT !.disconnected = IF r.prisma # NoClient THEN @ \cup {r.prisma.id} ELSE @,
              !.prisma = PrismaClient(r.made + 1, r.debug),
              !.db = Enhance(r.made + 2, PrismaClient(r.made + 1, r.debug), r.user, r.debug),
              !.context = [prisma |-> PrismaClient(r.made + 1, r.debug),
                           db |-> Enhance(r.made + 2, PrismaClient(r.made + 1, r.debug),
                                          r.user, r.debug)],
              !.made = @ + 2]

ReplSetAuth(r, user) ==
    SetPrompt([r EXCEPT !.user = user,
                        !.db = Enhance(r.made + 1, r.prisma, user, r.debug),
                        !.context.db = Enhance(r.made + 1, r.prisma, user, r.debug),
                        !.made = @ + 1])

\* the arguments of .table and .debug
FlagArguments == {"", "on", "off", "true", "false", "yes", "ON", "1"}

InvalidFlag(value) == value # "" /\ value \notin {"on", "off", "true", "false"}

FlagValue_Toggle(value, flag) == ~flag

FlagValue(value, flag) == IF value # "" THEN value \in {"on", "true"} ELSE ~flag

TableCommand(r, value) ==
    IF InvalidFlag(value) THEN r
    ELSE [r EXCEPT !.table = FlagValue(value, r.table)]

DebugCommand(r, value) ==
    IF InvalidFlag(value) THEN r
    ELSE SetPrompt(CreateClient([r EXCEPT !.debug = FlagValue(value, r.debug)]))

\* the arguments of .auth
AuthArguments == {"", "  ", "info"} \cup Expressions

AuthCommand_Unchecked(r, value) ==
    IF Trim(value) = "" THEN ReplSetAuth(r, JsUndefined)
    ELSE IF Trim(value) = "info" THEN ReplSetAuth(r, r.user)
    ELSE IF Eval(value).throws THEN r
    ELSE ReplSetAuth(r, Eval(value).value)

AuthCommand(r, value) ==
    IF Trim(value) = "" THEN ReplSetAuth(r, JsUndefined)
    ELSE IF Trim(value) = "info" THEN ReplSetAuth(r, r.user)
    ELSE IF Eval(value).throws THEN r
    ELSE IF ~Eval(value).value.truthy \/ Eval(value).value.typeof # "object" THEN r
    ELSE ReplSetAuth(r, Eval(value).value)

\* the lines evaluated in the session, as tokens: assignments to `user`, and
\* expressions that assign nothing
Lines ==
    {<<"user", "=", e>> : e \in Expressions} \cup {<<"user", "==", "7">>, <<"db">>}

IsUserAssignment(cmd) == Len(cmd) = 3 /\ cmd[1] = "user" /\ cmd[2] = "="

EvalLine(r, cmd) ==
    IF IsUserAssignment(cmd)
    THEN IF Eval(cmd[3]).throws THEN r
         ELSE ReplSetAuth([r EXCEPT !.user = Eval(cmd[3]).value], Eval(cmd[3]).value)
    ELSE r

\* the session before `repl` reaches its last two statements
Starting(debug, table) ==
    [pc |-> "starting", debug |-> debug = "true", table |-> table = "true",
     prisma |-> NoClient, db |-> NoEnhanced, user |-> JsUndefined,
     context |-> [prisma |-> NoClient, db |-> NoEnhanced],
     prompt |-> [debug |-> FALSE, userInfo |-> <<"anonymous">>],
     made |-> 0, disconnected |-> {},
     last |-> [command |-> "", value |-> <<>>]]

Options == {"undefined", "true", "false"}

InitRepl ==
    /\ ctx = Anonymous
    /\ heap = <<>>
    /\ calls = [c \in {"c1"} |-> Idle]
    /\ inner = <<>>
    /\ db = EmptyDb
    /\ repl \in {Starting(d, t) : d \in Options, t \in Options}
    /\ generator = <<>>
    /\ enhancer = <<>>

Started(r) == [CreateClient(SetPrompt(r)) EXCEPT !.pc = "ready"]

\* the session after a command: what the handler left, and which command it was
After(r, command, value) ==
    [r EXCEPT !.last = [command |-> command, value |-> value]]

ReplStartup ==
    /\ repl.pc = "starting"
    /\ repl' = Started(repl)
    /\ UNCHANGED <<ctx, heap, calls, inner, db, generator, enhancer>>

ReplTable(value) ==
    /\ repl.pc = "ready"
    /\ repl' = After(TableCommand(repl, value), "table", <<value>>)
    /\ UNCHANGED <<ctx, heap, calls, inner, db, generator, enhancer>>

ReplDebug(value) ==
    /\ repl.pc = "ready"
    /\ DebugCommand(repl, value).made <= MaxClients
    /\ repl' = After(DebugCommand(repl, value), "debug", <<value>>)
    /\ UNCHANGED <<ctx, heap, calls, inner, db, generator, enhancer>>

ReplAuth(value) ==
    /\ repl.pc = "ready"
    /\ AuthCommand(repl, value).made <= MaxClients
    /\ repl' = After(AuthCommand(repl, value), "auth", <<value>>)
    /\ UNCHANGED <<ctx, heap, calls, inner, db, generator, enhancer>>

ReplEval(cmd) ==
    /\ repl.pc = "ready"
    /\ EvalLine(repl, cmd).made <= MaxClients
    /\ repl' = After(EvalLine(repl, cmd), "eval", cmd)
    /\ UNCHANGED <<ctx, heap, calls, inner, db, generator, enhancer>>

NextRepl ==
    \/ ReplStartup
    \/ \E value \in FlagArguments : ReplTable(value)
    \/ \E value \in FlagArguments : ReplDebug(value)
    \/ \E value \in AuthArguments : ReplAuth(value)
    \/ \E cmd \in Lines : ReplEval(cmd)

SpecRepl == InitRepl /\ [][NextRepl]_vars

(***************************************************************************)
(* C25.  REPL session consistency: once the session has started, and after *)
(* every `.auth`, `.debug`, `.table` command and `user = ...` line, the    *)
(* enhanced client in `db` is the one in the REPL context, and it was made *)
(* from the current raw client, with the current value of `user` as its    *)
(* identity and the current debug flag as its query-logging option.        *)
(***************************************************************************)
C25_SessionConsistent ==
    repl.pc = "ready" =>
      /\ repl.prisma # NoClient
      /\ repl.db # NoEnhanced
      /\ repl.context.db = repl.db
      /\ repl.db.prisma = repl.prisma.id
      /\ repl.db.user = repl.user
      /\ repl.db.logPrismaQuery = repl.debug

\* `user = 7` typed after the debug flag was turned on in a session that
\* started without it
C25_Witness ==
    /\ repl.pc = "ready"
    /\ repl.last = [command |-> "eval", value |-> <<"user", "=", "7">>]
    /\ repl.user = Eval("7").value
    /\ repl.debug /\ repl.prisma.id = 3
    /\ repl.db.prisma = 3 /\ repl.db.user = repl.user /\ repl.db.logPrismaQuery

(***************************************************************************)
(* C26.  `.auth` with an empty argument sets the user to undefined; with   *)
(* an argument that evaluates to a non-null object it sets the user to     *)
(* that object; with an argument that evaluates to something falsy or not  *)
(* an object, or whose evaluation throws, it leaves the user and the       *)
(* enhanced client as they were.                                           *)
(***************************************************************************)
NonNullObject(e) == ~e.throws /\ e.value.typeof = "object" /\ e.value.text # "null"

C26_AuthArgument ==
    [][repl'.last.command = "auth" =>
         LET value == repl'.last.value[1] IN
           /\ Trim(value) = "" => repl'.user = JsUndefined
           /\ Trim(value) \notin {"", "info"} /\ NonNullObject(Eval(value)) =>
                repl'.user = Eval(value).value
           /\ Trim(value) \notin {"", "info"} /\ ~NonNullObject(Eval(value)) =>
                /\ repl'.user = repl.user
                /\ repl'.db = repl.db
                /\ repl'.context = repl.context]_vars

\* `.auth null` after `.auth { id: 1 }`: the user and the client of the
\* first command are still there
C26_Witness ==
    /\ repl.last = [command |-> "auth", value |-> <<"null">>]
    /\ repl.user = Eval("{ id: 1 }").value
    /\ repl.db.user = repl.user
    /\ repl.db.id = 3

(***************************************************************************)
(* C27.  `.table` and `.debug`: with no argument the command negates its   *)
(* flag; `on` and `true` set it, `off` and `false` clear it, whatever it   *)
(* was; any other argument leaves the flag, the raw client and the         *)
(* enhanced client as they were.  `.table` never makes a client; an        *)
(* accepted `.debug` makes a new raw client and a new enhanced client and  *)
(* keeps the user.                                                         *)
(***************************************************************************)
Expect(value, flag) ==
    CASE value = "" -> ~flag
      [] value \in {"on", "true"} -> TRUE
      [] value \in {"off", "false"} -> FALSE
      [] OTHER -> flag

SameClients == repl'.prisma = repl.prisma /\ repl'.db = repl.db /\ repl'.context = repl.context

C27_Flags ==
    [][/\ repl'.last.command = "table" =>
            /\ repl'.table = Expect(repl'.last.value[1], repl.table)
            /\ repl'.debug = repl.debug
            /\ SameClients /\ repl'.made = repl.made
       /\ repl'.last.command = "debug" =>
            /\ repl'.debug = Expect(repl'.last.value[1], repl.debug)
            /\ repl'.table = repl.table
            /\ IF repl'.last.value[1] \in {"", "on", "off", "true", "false"}
               THEN /\ repl'.prisma.id > repl.made
                    /\ repl'.db.id > repl.made
                    /\ repl'.db.prisma = repl'.prisma.id
                    /\ repl'.context = [prisma |-> repl'.prisma, db |-> repl'.db]
                    /\ repl'.user = repl.user /\ repl'.db.user = repl.user
               ELSE SameClients /\ repl'.made = repl.made]_vars

\* `.debug on` in a session that already had debug on, with a user set:
\* the flag stays on, the clients are new, the user is kept
C27_Witness ==
    /\ repl.last = [command |-> "debug", value |-> <<"on">>]
    /\ repl.debug /\ repl.made = 5 /\ repl.prisma.id = 4 /\ repl.db.id = 5
    /\ 1 \in repl.disconnected
    /\ repl.user = Eval("{ id: 1 }").value /\ repl.db.user = repl.user

(***************************************************************************)
(* The Prisma schema generator: the names it shortens.  A name is a        *)
(* sequence of characters; shortNameMap maps the full names shortened so   *)
(* far to their short names.  The search for a free index is one step per  *)
(* turn of its loop.                                                       *)
(***************************************************************************)
MaxTruncations == 3

DELEGATE_AUX_RELATION_PREFIX == <<"d", "e", "l", "e", "g", "a", "t", "e", "_", "a", "u", "x">>

IDENTIFIER_NAME_MAX_LENGTH == 50 - Len(DELEGATE_AUX_RELATION_PREFIX)

Digit(d) == <<"0", "1", "2", "3", "4", "5", "6", "7", "8", "9">>[d + 1]

\* `${index}`
RECURSIVE IndexText(_)
IndexText(n) == IF n < 10 THEN <<Digit(n)>> ELSE IndexText(n \div 10) \o <<Digit(n % 10)>>

\* `${baseName}_${index}`
ShortName(baseName, index) == baseName \o <<"_">> \o IndexText(index)

Slice(name, from, to) == SubSeq(name, from + 1, IF to < Len(name) THEN to ELSE Len(name))

Repeat(ch, n) == [i \in 1..n |-> ch]

\* delegate_aux_<model>, as long as a name may be
LongestName ==
    DELEGATE_AUX_RELATION_PREFIX \o <<"_">>
      \o Repeat("a", IDENTIFIER_NAME_MAX_LENGTH - Len(DELEGATE_AUX_RELATION_PREFIX) - 1)

\* the names given to truncate: some that fit, some that share their first
\* IDENTIFIER_NAME_MAX_LENGTH characters, two of them being what the
\* generator makes of the others, and one with another beginning
Names ==
    {DELEGATE_AUX_RELATION_PREFIX \o <<"_", "a">>, LongestName}
      \cup {LongestName \o suffix :
              suffix \in {<<"x">>, <<"y">>, <<"_", "0">>, <<"_", "1">>, <<"_", "0", "z">>}}
      \cup {Slice(LongestName, 0, IDENTIFIER_NAME_MAX_LENGTH - 1) \o <<"b", "x">>}

ShortNames(map) == {map[n] : n \in DOMAIN map}

Conflict_None(map, shortName) == FALSE

\* Array.from(this.shortNameMap.values()).find((v) => v === shortName)
Conflict(map, shortName) == shortName \in ShortNames(map)

MapSet(map, key, value) == [k \in DOMAIN map \cup {key} |-> IF k = key THEN value ELSE map[k]]

NotSearching == [name |-> <<>>, baseName |-> <<>>, index |-> 0, shortName |-> <<>>]

\* what a call of truncate returned
Returned(g, name, result) ==
    [g EXCEPT !.pc = "idle", !.search = NotSearching,
              !.returned = Append(@, [name |-> name, result |-> result])]

InitTruncate ==
    /\ ctx = Anonymous
    /\ heap = <<>>
    /\ calls = [c \in {"c1"} |-> Idle]
    /\ inner = <<>>
    /\ db = EmptyDb
    /\ repl = <<>>
    /\ generator = [pc |-> "idle", shortNameMap |-> <<>>, search |-> NotSearching,
                    returned |-> <<>>]
    /\ enhancer = <<>>

\* a call of truncate, up to the loop
Truncate(name) ==
    /\ generator.pc = "idle"
    /\ Len(generator.returned) < MaxTruncations
    /\ generator' =
         IF Len(name) <= IDENTIFIER_NAME_MAX_LENGTH THEN Returned(generator, name, name)
         ELSE IF name \in DOMAIN generator.shortNameMap
              THEN Returned(generator, name, generator.shortNameMap[name])
         ELSE [generator EXCEPT
                 !.pc = "search",
                 !.search = [name |-> name,
                             baseName |-> Slice(name, 0, IDENTIFIER_NAME_MAX_LENGTH),
                             index |-> 0,
                             shortName |-> ShortName(Slice(name, 0, IDENTIFIER_NAME_MAX_LENGTH), 0)]]
    /\ UNCHANGED <<ctx, heap, calls, inner, db, repl, enhancer>>

\* one turn of the loop
TruncateSearch ==
    /\ generator.pc = "search"
    /\ generator' =
         IF ~Conflict(generator.shortNameMap, generator.search.shortName)
         THEN Returned([generator EXCEPT !.shortNameMap =
                          MapSet(@, generator.search.name, generator.search.shortName)],
                       generator.search.name, generator.search.shortName)
         ELSE [generator EXCEPT
                 !.search.index = @ + 1,
                 !.search.shortName = ShortName(generator.search.baseName,
                                                generator.search.index + 1)]
    /\ UNCHANGED <<ctx, heap, calls, inner, db, repl, enhancer>>

NextTruncate ==
    \/ \E name \in Names : Truncate(name)
    \/ TruncateSearch

\* a call of truncate that is in its loop goes on
SpecTruncate == InitTruncate /\ [][NextTruncate]_vars /\ WF_vars(TruncateSearch)

(***************************************************************************)
(* C28.  Over the calls of truncate on one generator: a name of at most    *)
(* IDENTIFIER_NAME_MAX_LENGTH characters is returned as it is; a longer    *)
(* name gets the same short name at every call; two different names never  *)
(* get the same result; and the search for a free index comes to an end.   *)
(***************************************************************************)
ReturnedUnchanged ==
    \A i \in DOMAIN generator.returned :
      Len(generator.returned[i].name) <= IDENTIFIER_NAME_MAX_LENGTH =>
        generator.returned[i].result = generator.returned[i].name

ReturnedStable ==
    \A i, j \in DOMAIN generator.returned :
      generator.returned[i].name = generator.returned[j].name =>
        generator.returned[i].result = generator.returned[j].result

ReturnedDistinct ==
    \A i, j \in DOMAIN generator.returned :
      generator.returned[i].name # generator.returned[j].name =>
        generator.returned[i].result # generator.returned[j].result

C28_Truncate ==
    /\ [](ReturnedUnchanged /\ ReturnedStable /\ ReturnedDistinct)
    /\ (generator.pc = "search") ~> (generator.pc = "idle")

\* a name that is the short name of the name before it, and then the first
\* name again
C28_Witness ==
    /\ Len(generator.returned) = 3
    /\ generator.returned[1] = [name |-> LongestName \o <<"x">>,
                                result |-> LongestName \o <<"_", "0">>]
    /\ generator.returned[2] = [name |-> LongestName \o <<"_", "0">>,
                                result |-> LongestName \o <<"_", "1">>]
    /\ generator.returned[3] = generator.returned[1]

(***************************************************************************)
(* The Prisma schema generator: the fields of a model.  A field of the     *)
(* schema has a type (intrinsic, a reference, or Unsupported) and          *)
(* attributes; a generated field has a type text and Prisma attributes.    *)
(***************************************************************************)
MaxFields == 2

\* an attribute of a schema field: its declaration, whether the declaration
\* is marked @@@prisma, and its argument (kind and text)
Attribute(decl, prisma, kind, text) ==
    [decl |-> decl, prisma |-> prisma, arg |-> [type |-> kind, value |-> text]]

DefaultWithAuthAttr == Attribute("@default", TRUE, "MemberAccess", "auth().id")

DefaultLiteralAttr == Attribute("@default", TRUE, "Number", "1")

IdAttr == Attribute("@id", TRUE, "", "")

AllowAttr == Attribute("@allow", FALSE, "String", "read")

\* @default whose argument holds a call of auth()
IsDefaultWithAuth(attr) == attr.decl = "@default" /\ attr.arg.type = "MemberAccess"

IsPrismaAttribute(attr) == attr.decl # "" /\ attr.prisma

IsIdField(field) == \E i \in DOMAIN field.attributes : field.attributes[i].decl = "@id"

IsInheritedFromDelegate(field) == field.inheritedFrom = "delegate"

IntrinsicTypes ==
    {"String", "Int", "BigInt", "Float", "Decimal", "Boolean", "DateTime", "Json", "Bytes"}

\* the types of the fields: intrinsic, a reference to an enum, Unsupported
\* with and without its text
FieldTypes ==
    {[type |-> t, reference |-> "", unsupported |-> ""] : t \in IntrinsicTypes}
      \cup {[type |-> "", reference |-> "Role", unsupported |-> ""],
            [type |-> "", reference |-> "", unsupported |-> "\"circle\""],
            [type |-> "", reference |-> "", unsupported |-> "?"]}

Fields ==
    {[name |-> "f", type |-> t, attributes |-> a, inheritedFrom |-> ""] :
       t \in FieldTypes,
       a \in {<<DefaultWithAuthAttr>>, <<DefaultLiteralAttr>>,
              <<AllowAttr, DefaultWithAuthAttr>>}}
      \cup {[name |-> "id", type |-> t, attributes |-> a, inheritedFrom |-> "delegate"] :
              t \in FieldTypes,
              a \in {<<IdAttr, DefaultWithAuthAttr>>, <<IdAttr, DefaultLiteralAttr>>}}

PluginError(message, what) == [kind |-> "PluginError", message |-> message, what |-> what]

NoPluginError == [kind |-> "", message |-> "", what |-> ""]

GetUnsupportedFieldType(fieldType) ==
    IF fieldType.unsupported \notin {"", "?"} THEN "Unsupported" ELSE ""

\* lines 791-807: the text of the type, "" when it is not resolved
ResolveFieldType(field) ==
    IF field.type.type # "" THEN field.type.type
    ELSE IF field.type.reference # "" THEN field.type.reference
    ELSE GetUnsupportedFieldType(field.type)

PrismaFieldAttribute(name, arg) == [name |-> name, arg |-> arg]

MakeFieldAttribute(attr) == PrismaFieldAttribute(attr.decl, attr.arg)

Keep(seq, Test(_)) ==
    LET RECURSIVE From(_)
        From(i) == IF i > Len(seq) THEN <<>>
                   ELSE (IF Test(seq[i]) THEN <<seq[i]>> ELSE <<>>) \o From(i + 1)
    IN From(1)

FieldAttributes_KeepAuth(mode, field) ==
    LET Kept(attr) ==
          /\ IsPrismaAttribute(attr)
          /\ ~(/\ mode = "physical" /\ IsIdField(field) /\ IsInheritedFromDelegate(field)
               /\ attr.decl = "@default")
        kept == Keep(field.attributes, Kept)
    IN [i \in DOMAIN kept |-> MakeFieldAttribute(kept[i])]

\* lines 818-832
FieldAttributes(mode, field) ==
    LET Kept(attr) ==
          /\ IsPrismaAttribute(attr)
          /\ ~IsDefaultWithAuth(attr)
          /\ ~(/\ mode = "physical" /\ IsIdField(field) /\ IsInheritedFromDelegate(field)
               /\ attr.decl = "@default")
        kept == Keep(field.attributes, Kept)
    IN [i \in DOMAIN kept |-> MakeFieldAttribute(kept[i])]

NoValue == [type |-> "", value |-> ""]

DummyDefaultValue(type) ==
    CASE type = "String" -> [type |-> "String", value |-> ""]
      [] type \in {"Int", "BigInt", "Float", "Decimal"} -> [type |-> "Number", value |-> "0"]
      [] type = "Boolean" -> [type |-> "Boolean", value |-> "false"]
      [] type = "DateTime" -> [type |-> "FunctionCall", value |-> "now"]
      [] type = "Json" -> [type |-> "String", value |-> "{}"]
      [] type = "Bytes" -> [type |-> "String", value |-> ""]
      [] OTHER -> NoValue

\* the generated field and the error thrown, if any
SetDummyDefault(result, field) ==
    IF DummyDefaultValue(field.type.type) = NoValue
    THEN [result |-> result,
          err |-> PluginError("Unsupported field type with default value", field.type.type)]
    ELSE [result |-> [result EXCEPT !.attributes =
                        Append(@, PrismaFieldAttribute("@default",
                                                       DummyDefaultValue(field.type.type)))],
          err |-> NoPluginError]

NoField == [name |-> "", type |-> "", attributes |-> <<>>]

\* what generateModelField adds to the model, and the error it throws
GenerateModelFieldFrom(mode, field, added) ==
    IF ResolveFieldType(field) = ""
    THEN [result |-> NoField, err |-> PluginError("Field type is not resolved", field.name)]
    ELSE IF mode = "logical"
            /\ \E i \in DOMAIN field.attributes : IsDefaultWithAuth(field.attributes[i])
         THEN SetDummyDefault(added, field)
    ELSE [result |-> added, err |-> NoPluginError]

GenerateModelField(mode, field) ==
    GenerateModelFieldFrom(mode, field,
        [name |-> field.name, type |-> ResolveFieldType(field),
         attributes |-> FieldAttributes(mode, field)])

InitFields ==
    /\ ctx = Anonymous
    /\ heap = <<>>
    /\ calls = [c \in {"c1"} |-> Idle]
    /\ inner = <<>>
    /\ db = EmptyDb
    /\ repl = <<>>
    /\ generator \in {[mode |-> m, fields |-> <<>>, model |-> <<>>, err |-> NoPluginError] :
                        m \in {"physical", "logical"}}
    /\ enhancer = <<>>

\* the next field of the model that is being generated
GenerateField(field) ==
    /\ generator.err = NoPluginError
    /\ Len(generator.fields) < MaxFields
    /\ generator' =
         [generator EXCEPT
            !.fields = Append(@, field),
            !.model = Append(@, GenerateModelField(generator.mode, field).result),
            !.err = GenerateModelField(generator.mode, field).err]
    /\ UNCHANGED <<ctx, heap, calls, inner, db, repl, enhancer>>

NextFields == \E field \in Fields : GenerateField(field)

SpecFields == InitFields /\ [][NextFields]_vars

(***************************************************************************)
(* C29.  For every model field that carries `@default` with `auth()`: the  *)
(* generated field never carries that attribute; in logical mode it        *)
(* carries exactly one `@default`, the dummy value of the field's scalar   *)
(* type, or the generation has failed with a PluginError when the type has *)
(* none; in physical mode it carries no `@default`.                        *)
(***************************************************************************)
HasDefaultWithAuth(field) ==
    \E i \in DOMAIN field.attributes : IsDefaultWithAuth(field.attributes[i])

Defaults(generated) ==
    {i \in DOMAIN generated.attributes : generated.attributes[i].name = "@default"}

DummyOf(type) ==
    CASE type = "String" -> [type |-> "String", value |-> ""]
      [] type = "Int" -> [type |-> "Number", value |-> "0"]
      [] type = "BigInt" -> [type |-> "Number", value |-> "0"]
      [] type = "Float" -> [type |-> "Number", value |-> "0"]
      [] type = "Decimal" -> [type |-> "Number", value |-> "0"]
      [] type = "Boolean" -> [type |-> "Boolean", value |-> "false"]
      [] type = "DateTime" -> [type |-> "FunctionCall", value |-> "now"]
      [] type = "Json" -> [type |-> "String", value |-> "{}"]
      [] type = "Bytes" -> [type |-> "String", value |-> ""]

C29_AuthDefault ==
    \A i \in DOMAIN generator.fields :
      HasDefaultWithAuth(generator.fields[i]) =>
        /\ \A a \in DOMAIN generator.model[i].attributes :
             generator.model[i].attributes[a].arg.type # "MemberAccess"
        /\ generator.mode = "physical" => Defaults(generator.model[i]) = {}
        /\ generator.mode = "logical" =>
             IF generator.fields[i].type.type \in IntrinsicTypes
             THEN /\ Cardinality(Defaults(generator.model[i])) = 1
                  /\ \A a \in Defaults(generator.model[i]) :
                       generator.model[i].attributes[a].arg = DummyOf(generator.fields[i].type.type)
             ELSE /\ generator.err.kind = "PluginError"
                  /\ i = Len(generator.fields)

\* a logical schema with a DateTime id inherited from a delegate and a Json
\* field, both defaulting to a value of auth()
C29_Witness ==
    /\ generator.mode = "logical" /\ Len(generator.model) = 2
    /\ generator.fields[1].type.type = "DateTime"
    /\ generator.fields[1].attributes = <<IdAttr, DefaultWithAuthAttr>>
    /\ generator.model[1].attributes =
         <<PrismaFieldAttribute("@id", IdAttr.arg),
           PrismaFieldAttribute("@default", [type |-> "FunctionCall", value |-> "now"])>>
    /\ generator.fields[2].type.type = "Json"
    /\ generator.fields[2].attributes = <<AllowAttr, DefaultWithAuthAttr>>
    /\ generator.model[2].attributes =
         <<PrismaFieldAttribute("@default", [type |-> "String", value |-> "{}"])>>

(***************************************************************************)
(* The enhancer generator: the type aliases of the generated client.  The  *)
(* name of a type alias is a sequence of its words, its declaration a      *)
(* sequence of property signatures, and its source text a sequence of      *)
(* lines, one per property signature.                                      *)
(***************************************************************************)
\* the text of the property signature of that name
GetText(name) ==
    CASE name \in {"create", "connectOrCreate", "upsert", "createMany"} ->
           <<name, "?: ", "XOR<AssetCreate, AssetUncheckedCreate>">>
      [] name \in {"connect", "disconnect", "delete"} -> <<name, "?: ", "AssetWhereUniqueInput">>
      [] OTHER -> <<name, "?: ", "string">>

PropertySignature(name) == [name |-> name, text |-> GetText(name)]

\* the declarations of the type aliases
Declarations ==
    {<<"create", "connectOrCreate", "connect">>,
     <<"create", "connectOrCreate", "upsert", "createMany", "connect", "update", "delete">>,
     <<"upsert", "disconnect">>,
     <<"viewCount", "title">>,
     <<"title", "createMany">>,
     <<>>}

\* the names of the type aliases
TypeNames ==
    {<<model, "Create", "Input">> : model \in {"Asset", "Video", "User"}}
      \cup {<<model, "Unchecked", "Update", "Input">> : model \in {"Asset", "Video"}}
      \cup {<<model, "Create", "Nested", "Many", "Without", "Owner", "Input">> :
              model \in {"Asset", "User"}}
      \cup {<<model, "Update", "One", "Without", "Comments", "Nested", "Input">> :
              model \in {"Asset", "Video"}}
      \cup {<<"Asset", "Where", "Input">>, <<"Asset", "Create", "Args">>,
            <<"Asset", "Group", "Create", "Input">>}

TypeAliases ==
    {[name |-> n, properties |-> [i \in DOMAIN d |-> PropertySignature(d[i])]] :
       n \in TypeNames, d \in Declarations}

\* the delegate models that have concrete models, each with these
DelegateInfos == {<<<<"Asset", <<"Video">>>>>>, <<>>,
                  <<<<"Asset", <<"Video">>>>, <<"Video", <<"Clip">>>>>>}

DelegateModelNames(delegateInfo) == {delegateInfo[i][1] : i \in DOMAIN delegateInfo}

\* ^(<names>)(Unchecked)?(Create|Update).*Input$, on the words of a name;
\* with no name at all the first group is empty
DelegateCreateUpdateInputRegex(names, typeName) ==
    /\ Len(typeName) >= 3
    /\ typeName[Len(typeName)] = "Input"
    /\ \/ /\ typeName[1] \in names
          /\ \/ typeName[2] \in {"Create", "Update"}
             \/ typeName[2] = "Unchecked" /\ typeName[3] \in {"Create", "Update"}
       \/ /\ names = {}
          /\ \/ typeName[1] \in {"Create", "Update"}
             \/ typeName[1] = "Unchecked" /\ typeName[2] \in {"Create", "Update"}

\* source.replace(text, ''): the first occurrence of the text is emptied
RECURSIVE Replace(_, _)
Replace(source, text) ==
    IF source = <<>> THEN <<>>
    ELSE IF Head(source) = text THEN <<<<>>>> \o Tail(source)
    ELSE <<Head(source)>> \o Replace(Tail(source), text)

\* source.replace(/^\s*[\r\n]/gm, '')
RECURSIVE TrimEmptyLines(_)
TrimEmptyLines(source) ==
    IF source = <<>> THEN <<>>
    ELSE (IF Head(source) = <<>> THEN <<>> ELSE <<Head(source)>>)
           \o TrimEmptyLines(Tail(source))

RemoveFromSource(source, text) == TrimEmptyLines(Replace(source, text))

ToRemove(typeAlias) ==
    Keep(typeAlias.properties,
         LAMBDA q : q.name \in {"create", "createMany", "connectOrCreate", "upsert"})

\* forEach at lines 552-554: the sources that removeFromSource returned, one
\* per property to remove
Removals(typeAlias, source) ==
    [i \in DOMAIN ToRemove(typeAlias) |-> RemoveFromSource(source, ToRemove(typeAlias)[i].text)]

\* `source` is the parameter; nothing is assigned to it, and what
\* removeFromSource returned at line 553 is left unused
RemoveCreateFromDelegateInput(typeAlias, delegateInfo, source) ==
    LET removed ==
          IF DelegateCreateUpdateInputRegex(DelegateModelNames(delegateInfo), typeAlias.name)
          THEN Removals(typeAlias, source)
          ELSE <<>>
    IN source

\* structure.type: the text of the declaration
GetStructureType(typeAlias) == [i \in DOMAIN typeAlias.properties |-> typeAlias.properties[i].text]

InitEnhancer ==
    /\ ctx = Anonymous
    /\ heap = <<>>
    /\ calls = [c \in {"c1"} |-> Idle]
    /\ inner = <<>>
    /\ db = EmptyDb
    /\ repl = <<>>
    /\ generator = <<>>
    /\ enhancer \in {[pc |-> "alias", typeAlias |-> t, delegateInfo |-> d,
                      source |-> GetStructureType(t)] :
                       t \in TypeAliases, d \in DelegateInfos}

\* transformTypeAlias, as far as delegate input types go
TransformTypeAlias ==
    /\ enhancer.pc = "alias"
    /\ enhancer' = [enhancer EXCEPT
                      !.pc = "transformed",
                      !.source = RemoveCreateFromDelegateInput(enhancer.typeAlias,
                                                               enhancer.delegateInfo,
                                                               enhancer.source)]
    /\ UNCHANGED <<ctx, heap, calls, inner, db, repl, generator>>

NextEnhancer == TransformTypeAlias

SpecEnhancer == InitEnhancer /\ [][NextEnhancer]_vars

(***************************************************************************)
(* C30.  Delegate input types cannot create: for a type alias named        *)
(* <Delegate>(Unchecked)?(Create|Update)...Input, of a delegate model that *)
(* has concrete models, the source that removeCreateFromDelegateInput      *)
(* returned holds none of the `create`, `createMany`, `connectOrCreate`    *)
(* and `upsert` property signatures that the alias declared.               *)
(***************************************************************************)
IsDelegateInput(typeAlias, delegateInfo) ==
    /\ typeAlias.name[1] \in DelegateModelNames(delegateInfo)
    /\ \/ typeAlias.name[2] \in {"Create", "Update"}
       \/ typeAlias.name[2] = "Unchecked" /\ typeAlias.name[3] \in {"Create", "Update"}
    /\ typeAlias.name[Len(typeAlias.name)] = "Input"

C30_CreateRemoved ==
    enhancer.pc = "transformed" /\ IsDelegateInput(enhancer.typeAlias, enhancer.delegateInfo) =>
      \A i \in DOMAIN enhancer.typeAlias.properties :
        enhancer.typeAlias.properties[i].name
            \in {"create", "createMany", "connectOrCreate", "upsert"} =>
          \A l \in DOMAIN enhancer.source :
            enhancer.source[l] # enhancer.typeAlias.properties[i].text

====
